---- MODULE Spec2Model ----
(***************************************************************************)
(* A model of trax's backend selection shim (trax/backend.py), of the      *)
(* layers of the Reformer model (trax/models/research/reformer.py), of     *)
(* ShapeDtype (trax/shapes.py) and of the array creation of tf_numpy.      *)
(*                                                                         *)
(* The specifications of the module:                                       *)
(*   SpecBackend  one thread of control entering and leaving nested        *)
(*                use_backend scopes and calling backend() and the         *)
(*                wrappers                                                 *)
(*   SpecThreads  two use_backend scopes run by two threads / generators   *)
(*   Spec         construction, forward, reverse and reverse_and_grad of   *)
(*                the two half-residual layers on bounded integer tensors  *)
(*   SpecMap      new_params_and_state and forward of the Map combinator   *)
(*   SpecChunk    Chunk and Unchunk applied to arrays, one after another   *)
(*   SpecDropout  BroadcastedDropout                                       *)
(*   SpecDevices  reshape_by_device and combine_devices on nested          *)
(*                structures of arrays                                     *)
(*   SpecRepeat   one call made twice while other code draws from numpy's  *)
(*                module-level generator in between                        *)
(*   SpecShape    ShapeDtype and shape_dtype_for (trax/shapes.py)          *)
(*   SpecArrays   array, asarray and asanyarray of tf_numpy                *)
(*   SpecBlock    a DecoderBlock run as a reversible stack                 *)
(*   SpecSplit    SplitForOutput                                           *)
(*   SpecReformer the topology ReformerLM returns                          *)
(***************************************************************************)
EXTENDS Integers, Sequences, FiniteSets, TLC

VARIABLES
  override_backend_name,  \* backend.py: the module-level override
  gin_name,               \* the gin-configured default of backend(name=...)
  frames,                 \* active use_backend generator frames, innermost last
  exc,                    \* an exception is propagating
  last_call,              \* what the last backend() / get_name() call returned
  last_wrapper,           \* the last wrapper called, and how its lookup ended
  last_exit,              \* history: the last scope exit of this thread of control
  tpc, tname, tprev,      \* per thread: position, use_backend argument, prev_name
  order,                  \* the enter / exit steps of the threads, in order
  cfg,                    \* the half-residual layer under test and its sublayers
  params, state,          \* the layer's parameter and state lists, one per sublayer
  inputs, rng,            \* the input pair (x1, x2) and the rng of the calls
  fwd, rev,               \* what forward and reverse returned
  ct, rag,                \* the output cotangent and what reverse_and_grad returned
  has_fb,                 \* the attention object exposes forward_and_backward
  built, wrapper,         \* how constructing the layer / a bare wrapper ended
  map_layer,              \* a Map combinator: n_sections and check_shapes
  map_call, map_ret,      \* the last call made on the Map, and its outcome
  chunk_x0, chunk_n,      \* an array and the n_sections of Chunk / Unchunk
  chunk_hist, chunk_cur,  \* the layers applied to it so far, and the outcome
  drop_call, drop_ret,    \* a BroadcastedDropout call and its outcome
  dev_call, dev_ret,      \* a reshape_by_device call and its outcome
  dev_back,               \* what combine_devices made of that outcome
  gen_state,              \* the state of numpy's module-level generator
  rep_call,               \* a call that is made twice with the same arguments
  rep_first, rep_second,  \* what the first and the second call returned
  sd_obj, sd_made,        \* a ShapeDtype instance, and how it was constructed
  sd_last,                \* the last operation on the instance and its outcome
  arr_call, arr_ret,      \* an array_creation call and its outcome
  blk_call,               \* a decoder block and the arguments of its calls
  blk_fwd, blk_rev,       \* what the block's forward and reverse returned
  split_call,             \* a SplitForOutput layer and the arguments of its calls
  split_fwd, split_rev,   \* what its forward and reverse returned
  split_rag,              \* what its reverse_and_grad returned
  lm_call, lm_ret         \* a ReformerLM call and the topology it returned

backendVars == <<override_backend_name, gin_name, frames, exc, last_call,
                 last_wrapper, last_exit>>
threadVars  == <<tpc, tname, tprev, order>>
layerVars   == <<cfg, params, state, inputs, rng, fwd, rev, ct, rag, has_fb,
                 built, wrapper>>
mapVars     == <<map_layer, map_call, map_ret>>
chunkVars   == <<chunk_x0, chunk_n, chunk_hist, chunk_cur>>
dropVars    == <<drop_call, drop_ret>>
devVars     == <<dev_call, dev_ret, dev_back>>
opVars      == <<mapVars, chunkVars, dropVars, devVars>>
repVars     == <<gen_state, rep_call, rep_first, rep_second>>
sdVars      == <<sd_obj, sd_made, sd_last>>
arrVars     == <<arr_call, arr_ret>>
blockVars   == <<blk_call, blk_fwd, blk_rev>>
splitVars   == <<split_call, split_fwd, split_rev, split_rag>>
lmVars      == <<lm_call, lm_ret>>
extraVars   == <<repVars, sdVars, arrVars, blockVars, splitVars, lmVars>>
vars == <<backendVars, threadVars, layerVars, opVars, extraVars>>

(***************************************************************************)
(* Bounds of the model.                                                    *)
(***************************************************************************)
MaxDepth == 3
MaxVal == 2
MaxCt == 2

(***************************************************************************)
(* backend.py: provider tables and backend selection.                      *)
(***************************************************************************)
\* Python's None; the other names are strings, "" being the empty string.
NoneName == "<None>"

Names == {NoneName, "", "numpy", "jax", "tf"}

\* Python truthiness of a name: None and '' are falsy.
Truthy(n) == n \notin {NoneName, ""}

JAX_BACKEND ==
  [name |-> "jax",
   keys |-> {"name", "np", "logsumexp", "expit", "erf", "conv", "avg_pool",
             "max_pool", "sum_pool", "jit", "grad", "pmap", "psum",
             "eval_on_shapes", "random_uniform", "random_randint",
             "random_normal", "random_bernoulli", "random_get_prng",
             "random_split", "dataset_as_numpy", "device_count"}]

NUMPY_BACKEND ==
  [name |-> "numpy",
   keys |-> {"name", "np", "jit", "random_get_prng", "random_split", "expit"}]

\* A plausible slip: an explicitly passed name wins over the override.
backend_ArgWins(name) ==
  LET n == IF name # "jax" THEN name
           ELSE IF ~Truthy(override_backend_name) THEN name
           ELSE override_backend_name
  IN  IF n = "numpy" THEN NUMPY_BACKEND ELSE JAX_BACKEND

\* def backend(name='jax')
backend(name) ==
  LET n == IF ~Truthy(override_backend_name) THEN name
           ELSE override_backend_name
  IN  IF n = "numpy" THEN NUMPY_BACKEND ELSE JAX_BACKEND

\* def get_name(): backend() is called with the configured default name.
get_name == backend(gin_name).name

\* The entry of the provider table each wrapper looks up: the module-level
\* functions, the methods of RandomBackend, and NumpyBackend.__getattr__.
WrapperKey ==
  [w \in {"logsumexp", "expit", "erf", "conv", "avg_pool", "max_pool",
          "sum_pool", "jit", "grad", "pmap", "psum", "eval_on_shapes",
          "dataset_as_numpy", "device_count"} |-> w]
    @@ [w \in {"random.get_prng", "random.split", "random.uniform",
               "random.randint", "random.normal", "random.bernoulli"} |->
          CASE w = "random.get_prng" -> "random_get_prng"
            [] w = "random.split" -> "random_split"
            [] w = "random.uniform" -> "random_uniform"
            [] w = "random.randint" -> "random_randint"
            [] w = "random.normal" -> "random_normal"
            [] w = "random.bernoulli" -> "random_bernoulli"]
    @@ [w \in {"numpy.__getattr__"} |-> "np"]

Wrappers == DOMAIN WrapperKey

\* backend()[key]: the table of the default call backend() and the dict
\* lookup in it, which raises KeyError for a missing key.
lookup(w) ==
  IF WrapperKey[w] \in backend(gin_name).keys THEN "ok" ELSE "KeyError"

NoWrapperCall == [made |-> FALSE, wrapper |-> "", outcome |-> ""]

NoCall == [made |-> FALSE, arg |-> NoneName, table |-> JAX_BACKEND, name |-> "jax"]

NoExit == [happened |-> FALSE, depth |-> 0, raised |-> FALSE, at_entry |-> NoneName]

(***************************************************************************)
(* backend.py: use_backend, a generator-based context manager.             *)
(***************************************************************************)
\* A plausible slip: the exit clears the override instead of restoring it.
use_backend_restore_Clear(prev_name) == NoneName

\* finally: override_backend_name = prev_name
use_backend_restore(prev_name) == prev_name

\* prev_name = override_backend_name; override_backend_name = name; yield
\* at_entry is a history value: the override as it was when the scope began.
use_backend_enter(name) ==
  /\ ~exc
  /\ Len(frames) < MaxDepth
  /\ frames' = Append(frames, [prev_name |-> override_backend_name,
                               name |-> name,
                               at_entry |-> override_backend_name])
  /\ override_backend_name' = name
  /\ last_call' = NoCall
  /\ last_wrapper' = NoWrapperCall
  /\ last_exit' = NoExit
  /\ UNCHANGED <<gin_name, exc, threadVars, layerVars, opVars, extraVars>>

\* The body of the innermost scope raises.
BodyRaises ==
  /\ ~exc
  /\ frames # <<>>
  /\ exc' = TRUE
  /\ UNCHANGED <<override_backend_name, gin_name, frames, last_call,
               last_wrapper, last_exit, threadVars, layerVars, opVars, extraVars>>

\* The generator is resumed (normal exit) or thrown into (the body raised):
\* either way the finally clause runs; a thrown exception is re-raised.
use_backend_exit ==
  /\ frames # <<>>
  /\ override_backend_name' = use_backend_restore(frames[Len(frames)].prev_name)
  /\ frames' = SubSeq(frames, 1, Len(frames) - 1)
  /\ last_call' = NoCall
  /\ last_wrapper' = NoWrapperCall
  /\ last_exit' = [happened |-> TRUE, depth |-> Len(frames), raised |-> exc,
                   at_entry |-> frames[Len(frames)].at_entry]
  /\ UNCHANGED <<gin_name, exc, threadVars, layerVars, opVars, extraVars>>

\* A try/except of the caller handles the propagating exception.
CallerCatches ==
  /\ exc
  /\ exc' = FALSE
  /\ UNCHANGED <<override_backend_name, gin_name, frames, last_call,
               last_wrapper, last_exit, threadVars, layerVars, opVars, extraVars>>

\* backend(arg) and get_name() are called.
CallBackend(arg) ==
  /\ ~exc
  /\ last_call' = [made |-> TRUE, arg |-> arg, table |-> backend(arg),
                   name |-> get_name]
  /\ last_wrapper' = NoWrapperCall
  /\ UNCHANGED <<override_backend_name, gin_name, frames, exc, last_exit,
               threadVars, layerVars, opVars, extraVars>>

\* One of the module-level wrappers, a RandomBackend method or an attribute
\* of the numpy forwarder is called.
CallWrapper(w) ==
  /\ ~exc
  /\ last_wrapper' = [made |-> TRUE, wrapper |-> w, outcome |-> lookup(w)]
  /\ last_call' = NoCall
  /\ UNCHANGED <<override_backend_name, gin_name, frames, exc, last_exit,
               threadVars, layerVars, opVars, extraVars>>

\* No layer has been built or called.
NoResult == [status |-> "none", out |-> <<>>, x_ct |-> <<>>, params_ct |-> <<>>]

LayersIdle ==
  /\ cfg = [layer |-> "none", res |-> "none", attn |-> "none", post |-> "none"]
  /\ params = <<>>
  /\ state = <<>>
  /\ inputs = <<>>
  /\ rng = <<>>
  /\ fwd = NoResult
  /\ rev = NoResult
  /\ ct = <<>>
  /\ rag = NoResult
  /\ has_fb = TRUE
  /\ built = "none"
  /\ wrapper = "none"

\* No Map, Chunk, BroadcastedDropout or reshape_by_device call has been made.
NoOpCall == [op |-> "none"]

NoOpResult == [status |-> "none"]

OpsIdle ==
  /\ map_layer = [n_sections |-> 1, check_shapes |-> TRUE]
  /\ map_call = NoOpCall
  /\ map_ret = NoOpResult
  /\ chunk_x0 = [shape |-> <<>>, data |-> <<>>]
  /\ chunk_n = 1
  /\ chunk_hist = <<>>
  /\ chunk_cur = NoOpResult
  /\ drop_call = NoOpCall
  /\ drop_ret = NoOpResult
  /\ dev_call = NoOpCall
  /\ dev_ret = NoOpResult
  /\ dev_back = NoOpResult

\* The module-level generator is in its first state and no call of the
\* repeated kind has been made.
RepIdle ==
  /\ gen_state = 0
  /\ rep_call = NoOpCall
  /\ rep_first = NoOpResult
  /\ rep_second = NoOpResult

ShapeDtypeIdle ==
  /\ sd_obj = NoOpResult
  /\ sd_made = NoOpCall
  /\ sd_last = NoOpCall

ArraysIdle ==
  /\ arr_call = NoOpCall
  /\ arr_ret = NoOpResult

BlockIdle ==
  /\ blk_call = NoOpCall
  /\ blk_fwd = NoOpResult
  /\ blk_rev = NoOpResult

SplitIdle ==
  /\ split_call = NoOpCall
  /\ split_fwd = NoOpResult
  /\ split_rev = NoOpResult
  /\ split_rag = NoOpResult

ReformerIdle ==
  /\ lm_call = NoOpCall
  /\ lm_ret = NoOpResult

ThreadsIdle ==
  /\ tpc = [t \in {1, 2} |-> "start"]
  /\ tname = [t \in {1, 2} |-> NoneName]
  /\ tprev = [t \in {1, 2} |-> NoneName]
  /\ order = <<>>

InitBackend ==
  /\ RepIdle /\ ShapeDtypeIdle /\ ArraysIdle /\ BlockIdle /\ SplitIdle
  /\ ReformerIdle
  /\ override_backend_name = NoneName
  /\ gin_name \in Names \ {NoneName}
  /\ frames = <<>>
  /\ exc = FALSE
  /\ last_call = NoCall
  /\ last_wrapper = NoWrapperCall
  /\ last_exit = NoExit
  /\ ThreadsIdle
  /\ LayersIdle
  /\ OpsIdle

NextBackend ==
  \/ \E name \in Names : use_backend_enter(name)
  \/ BodyRaises
  \/ use_backend_exit
  \/ CallerCatches
  \/ \E arg \in Names : CallBackend(arg)
  \/ \E w \in Wrappers : CallWrapper(w)

SpecBackend == InitBackend /\ [][NextBackend]_vars

(***************************************************************************)
(* Two use_backend scopes run by different threads (or generators): each   *)
(* keeps its own prev_name, the override is shared.                        *)
(***************************************************************************)
Threads == {1, 2}

thread_enter(t, name) ==
  /\ tpc[t] = "start"
  /\ tprev' = [tprev EXCEPT ![t] = override_backend_name]
  /\ tname' = [tname EXCEPT ![t] = name]
  /\ override_backend_name' = name
  /\ tpc' = [tpc EXCEPT ![t] = "body"]
  /\ order' = Append(order, <<t, "enter">>)
  /\ UNCHANGED <<gin_name, frames, exc, last_call, last_wrapper, last_exit,
               layerVars, opVars, extraVars>>

\* finally: override_backend_name = prev_name
thread_exit(t) ==
  /\ tpc[t] = "body"
  /\ override_backend_name' = use_backend_restore(tprev[t])
  /\ tpc' = [tpc EXCEPT ![t] = "done"]
  /\ order' = Append(order, <<t, "exit">>)
  /\ UNCHANGED <<gin_name, frames, exc, last_call, last_wrapper, last_exit,
               tname, tprev, layerVars, opVars, extraVars>>

InitThreads ==
  /\ RepIdle /\ ShapeDtypeIdle /\ ArraysIdle /\ BlockIdle /\ SplitIdle
  /\ ReformerIdle
  /\ override_backend_name = NoneName
  /\ gin_name = "jax"
  /\ frames = <<>>
  /\ exc = FALSE
  /\ last_call = NoCall
  /\ last_wrapper = NoWrapperCall
  /\ last_exit = NoExit
  /\ ThreadsIdle
  /\ LayersIdle
  /\ OpsIdle

NextThreads ==
  \/ \E t \in Threads, name \in Names : thread_enter(t, name)
  \/ \E t \in Threads : thread_exit(t)

SpecThreads == InitThreads /\ [][NextThreads]_vars

(***************************************************************************)
(* reformer.py: the reversible half-residual layers.                       *)
(*                                                                         *)
(* Tensors are integers, so that "exactly equal" is decidable.  The stack  *)
(* a Serial combinator works on is a sequence of tensors.  A parameter     *)
(* structure is a record of its tree shape and its leaves, in order.  A    *)
(* seed is the path of split indices from a base seed; None is the empty   *)
(* path, which no split produces.                                          *)
(***************************************************************************)
NoneRng == <<>>

tree_leaves(p) == p.leaves

Failure(kind) == [status |-> kind, out |-> <<>>, x_ct |-> <<>>, params_ct |-> <<>>]

Returned(out) == [status |-> "ok", out |-> out, x_ct |-> <<>>, params_ct |-> <<>>]

\* backend.random.split under the jax provider: num distinct sub-seeds.
random_split(prng, num) == [i \in 1..num |-> Append(prng, i - 1)]

\* rngs = (None,) * n; if rng is not None: rngs = backend.random.split(rng, n)
split_rngs(r, n) ==
  IF r = NoneRng THEN [i \in 1..n |-> NoneRng] ELSE random_split(r, n)

\* trax.layers.combinators._pop_rng_and_split, used by Serial and Parallel.
pop_rng_and_split(r, n) ==
  IF r = NoneRng THEN [i \in 1..n |-> NoneRng] ELSE random_split(r, n)

(***************************************************************************)
(* The sublayers a caller passes in.  They are inputs of the layers under  *)
(* study; each comes with its exact derivative, which is what jax.vjp      *)
(* computes for it.                                                        *)
(***************************************************************************)
RECURSIVE SeedSum(_)
SeedSum(r) ==
  IF r = <<>> THEN 0
  ELSE Len(r) * r[Len(r)] + SeedSum(SubSeq(r, 1, Len(r) - 1))

\* The multiplier a dropout of rate 1/2 draws from seed r: 0 or 1/(1 - 1/2).
Mask(r) ==
  IF r = NoneRng THEN 1
  ELSE IF (SeedSum(r) + Len(r)) % 3 = 0 THEN 0 ELSE 2

\* pre_attention: x -> (q, k, v), with one weight w and a state offset st.
PreAttention(x, w, st, r) == <<w * x + st, x, x + 1>>

PreAttention_vjp(x, w, st, r, c) ==
  [x_ct |-> w * c[1] + c[2] + c[3], p_ct |-> x * c[1]]

\* attention (kind "dot" is deterministic, "lsh" draws on its seed).
Attention(kind, qkv, r) ==
  IF kind = "lsh" THEN qkv[1] * qkv[2] * Mask(r) + qkv[3]
  ELSE qkv[1] * qkv[2] + qkv[3]

\* attention.forward_and_backward(qkv, out_ct): the output and the
\* cotangent of (q, k, v).
Attention_forward_and_backward(kind, qkv, out_ct, r) ==
  LET m == IF kind = "lsh" THEN Mask(r) ELSE 1
  IN  [out |-> Attention(kind, qkv, r),
       qkv_ct |-> <<qkv[2] * m * out_ct, qkv[1] * m * out_ct, out_ct>>]

\* post_attention with one weight w: "linear" and "dropout" are linear in
\* the input o, "nonlinear" is not.
PostAttention(kind, o, w, r) ==
  CASE kind = "linear" -> w * o
    [] kind = "dropout" -> w * o * Mask(r)
    [] kind = "nonlinear" -> w * o * o

\* Its vector-Jacobian product with respect to the input, taken at o.
PostAttention_vjp_x(kind, o, w, r, c) ==
  CASE kind = "linear" -> w * c
    [] kind = "dropout" -> w * Mask(r) * c
    [] kind = "nonlinear" -> 2 * w * o * c

\* Its vector-Jacobian product with respect to the weight, taken at o.
PostAttention_vjp_p(kind, o, w, r, c) ==
  CASE kind = "linear" -> o * c
    [] kind = "dropout" -> o * Mask(r) * c
    [] kind = "nonlinear" -> o * o * c

\* residual_layers of ReversibleHalfResidual, applied to x with leaves
\* w = <<w1, w2>>, state st and seed r.  "chain" is the list
\* [pre_attention, attention, post_attention], run as a Serial of three.
Residual(c, x, w, st, r) ==
  CASE c.res = "affine" -> w[1] * x + w[2] + st
    [] c.res = "square" -> w[1] * x * x + w[2] * x
    [] c.res = "dropout" -> w[1] * x * Mask(r) + w[2]
    [] c.res = "chain" ->
         LET rs == pop_rng_and_split(r, 3)
             qkv == PreAttention(x, w[1], st, rs[1])
             o == Attention(c.attn, qkv, rs[2])
         IN  PostAttention(c.post, o, w[2], rs[3])

\* jax.vjp of the residual at x: the cotangents of x and of the leaves.
Residual_vjp(c, x, w, st, r, out_ct) ==
  CASE c.res = "affine" ->
         [x_ct |-> w[1] * out_ct, p_ct |-> <<x * out_ct, out_ct>>]
    [] c.res = "square" ->
         [x_ct |-> (2 * w[1] * x + w[2]) * out_ct,
          p_ct |-> <<x * x * out_ct, x * out_ct>>]
    [] c.res = "dropout" ->
         [x_ct |-> w[1] * Mask(r) * out_ct,
          p_ct |-> <<x * Mask(r) * out_ct, out_ct>>]
    [] c.res = "chain" ->
         LET rs == pop_rng_and_split(r, 3)
             qkv == PreAttention(x, w[1], st, rs[1])
             o == Attention(c.attn, qkv, rs[2])
             o_ct == PostAttention_vjp_x(c.post, o, w[2], rs[3], out_ct)
             fb == Attention_forward_and_backward(c.attn, qkv, o_ct, rs[2])
             pre == PreAttention_vjp(x, w[1], st, rs[1], fb.qkv_ct)
         IN  [x_ct |-> pre.x_ct,
              p_ct |-> <<pre.p_ct,
                         PostAttention_vjp_p(c.post, o, w[2], rs[3], out_ct)>>]

(***************************************************************************)
(* The sublayers the two classes build in __init__.                        *)
(***************************************************************************)
\* The seed the first branch of tl.Parallel(layers, [], []) receives when
\* the Parallel is the third layer of a Serial that was given seed r.
InnerSeed(r) == pop_rng_and_split(pop_rng_and_split(r, 3)[3], 3)[1]

\* A plausible slip: the tl.Swap() is left out, so that the residual is
\* computed from the first stream.
compute_residual_NoSwap(c, x, p, s, r) ==
  LET dup == <<x[1], x[2], x[2]>>
  IN  <<Residual(c, dup[1], tree_leaves(p), s, InnerSeed(r)), dup[2], dup[3]>>

\* self.compute_residual: (x1_or_y1, x2) -> (f(x2), x1_or_y1, x2)
compute_residual(c, x, p, s, r) ==
  LET dup == <<x[1], x[2], x[2]>>            \* tl.Parallel([], tl.Dup())
      swap == <<dup[2], dup[1], dup[3]>>      \* tl.Swap()
  IN  <<Residual(c, swap[1], tree_leaves(p), s, InnerSeed(r)),
        swap[2], swap[3]>>                    \* tl.Parallel(residual_layers, [], [])

\* jax.vjp(call_compute_residual, x, params): the cotangents of x and params
\* for the cotangent c3 of the three outputs.
compute_residual_vjp(c, x, p, s, r, c3) ==
  LET res == Residual_vjp(c, x[2], tree_leaves(p), s, InnerSeed(r), c3[1])
      swap_ct == <<res.x_ct, c3[2], c3[3]>>
      dup_ct == <<swap_ct[2], swap_ct[1], swap_ct[3]>>
  IN  [x_ct |-> <<dup_ct[1], dup_ct[2] + dup_ct[3]>>,
       params_ct |-> [shape |-> p.shape, leaves |-> res.p_ct]]

\* self.pre_attention: (x1_or_y1, x2) -> (q, k, v, x1_or_y1, x2)
pre_attention(c, x, p, s, r) ==
  LET dup == <<x[1], x[2], x[2]>>
      swap == <<dup[2], dup[1], dup[3]>>
  IN  PreAttention(swap[1], tree_leaves(p)[1], s, InnerSeed(r))
        \o <<swap[2], swap[3]>>

\* jax.vjp(call_pre_attention, x, params), for the cotangent c5 of its outputs.
pre_attention_vjp(c, x, p, s, r, c5) ==
  LET pre == PreAttention_vjp(x[2], tree_leaves(p)[1], s, InnerSeed(r),
                              <<c5[1], c5[2], c5[3]>>)
      swap_ct == <<pre.x_ct, c5[4], c5[5]>>
      dup_ct == <<swap_ct[2], swap_ct[1], swap_ct[3]>>
  IN  [x_ct |-> <<dup_ct[1], dup_ct[2] + dup_ct[3]>>,
       params_ct |-> [shape |-> p.shape, leaves |-> <<pre.p_ct>>]]

\* ApplyAttentionWrapper, a tl.Parallel(attention, [], []): its forward.
ApplyAttentionWrapper_forward(c, stack, r) ==
  <<Attention(c.attn, <<stack[1], stack[2], stack[3]>>,
              pop_rng_and_split(r, 3)[1])>>
    \o SubSeq(stack, 4, Len(stack))

\* A plausible slip: passthrough_ct = ct[:-1] instead of ct[1:].
ApplyAttentionWrapper_forward_and_backward_WrongCt(c, stack, cts, r) ==
  LET qkv == SubSeq(stack, 1, 3)
      passthrough == SubSeq(stack, 4, Len(stack))
      out_ct == cts[1]
      passthrough_ct == SubSeq(cts, 1, Len(cts) - 1)
      r1 == IF r # NoneRng THEN random_split(r, 3)[1] ELSE r
      fb == Attention_forward_and_backward(c.attn, qkv, out_ct, r1)
  IN  [out |-> <<fb.out>> \o passthrough, ct |-> fb.qkv_ct \o passthrough_ct]

\* ApplyAttentionWrapper.forward_and_backward
ApplyAttentionWrapper_forward_and_backward(c, stack, cts, r) ==
  LET qkv == SubSeq(stack, 1, 3)
      passthrough == SubSeq(stack, 4, Len(stack))
      out_ct == cts[1]
      passthrough_ct == SubSeq(cts, 2, Len(cts))
      r1 == IF r # NoneRng THEN random_split(r, 3)[1] ELSE r
      fb == Attention_forward_and_backward(c.attn, qkv, out_ct, r1)
  IN  [out |-> <<fb.out>> \o passthrough, ct |-> fb.qkv_ct \o passthrough_ct]

\* self.post_attention = tl.Parallel(post_attention, [], [])
post_attention(c, stack, p, s, r) ==
  <<PostAttention(c.post, stack[1], tree_leaves(p)[1],
                  pop_rng_and_split(r, 3)[1])>>
    \o Tail(stack)

\* jax.vjp(call_post_attention, x): the cotangent of the three inputs.
post_attention_vjp_x(c, stack, p, s, r, c3) ==
  <<PostAttention_vjp_x(c.post, stack[1], tree_leaves(p)[1],
                        pop_rng_and_split(r, 3)[1], c3[1])>>
    \o Tail(c3)

\* jax.vjp(call_post_attention2, params): the cotangent of the parameters.
post_attention_vjp_p(c, stack, p, s, r, c3) ==
  [shape |-> p.shape,
   leaves |-> <<PostAttention_vjp_p(c.post, stack[1], tree_leaves(p)[1],
                                    pop_rng_and_split(r, 3)[1], c3[1])>>]

\* tl.Parallel(tl.Add(), [])
add_top(stack) == <<stack[1] + stack[2]>> \o SubSeq(stack, 3, Len(stack))

\* self.subtract_top = tl.Parallel(tl.SubtractTop(), [])
subtract_top(stack) == <<stack[2] - stack[1]>> \o SubSeq(stack, 3, Len(stack))

\* The forward computation of one sublayer, by name.
ApplySublayer(tag, c, x, p, s, r) ==
  CASE tag = "compute_residual" -> compute_residual(c, x, p, s, r)
    [] tag = "pre_attention" -> pre_attention(c, x, p, s, r)
    [] tag = "attention" -> ApplyAttentionWrapper_forward(c, x, r)
    [] tag = "post_attention" -> post_attention(c, x, p, s, r)
    [] tag = "add_top" -> add_top(x)
    [] tag = "subtract_top" -> subtract_top(x)

\* The class of each sublayer object.
SublayerClass(tag) ==
  CASE tag \in {"compute_residual", "pre_attention"} -> "Serial"
    [] tag = "attention" -> "ApplyAttentionWrapper"
    [] tag \in {"post_attention", "add_top", "subtract_top"} -> "Parallel"

\* The classes that derive from tl.ReversibleLayer, which declares reverse
\* and reverse_and_grad; tl.Serial, tl.Parallel and ApplyAttentionWrapper
\* do not.
HasReverse(class) ==
  class \in {"ReversibleHalfResidual", "ReversibleAttentionHalfResidual",
             "SplitForOutput", "ReversibleSwap", "ReversibleSerial"}

\* A plausible slip: the Add sublayer is left out of the layer list.
sublayers_NoAdd(layer) ==
  IF layer = "half" THEN <<"compute_residual">>
  ELSE <<"pre_attention", "attention", "post_attention">>

\* layers = [...] handed to tl.Serial.__init__
sublayers(layer) ==
  IF layer = "half" THEN <<"compute_residual", "add_top">>
  ELSE <<"pre_attention", "attention", "post_attention", "add_top">>

\* A plausible slip: the reverse list ends with the Add of the forward list.
reverse_layers_Add(layer) ==
  IF layer = "half" THEN <<"compute_residual", "add_top">>
  ELSE <<"pre_attention", "attention", "post_attention", "add_top">>

\* self.reverse_layers
reverse_layers(layer) ==
  IF layer = "half" THEN <<"compute_residual", "subtract_top">>
  ELSE <<"pre_attention", "attention", "post_attention", "subtract_top">>

\* self._n_layers, set by tl.Serial.__init__
n_layers(layer) == Len(sublayers(layer))

Min(S) == CHOOSE m \in S : \A k \in S : m <= k

\* The first n layers of a list applied in order, the i-th with the i-th
\* parameters, state and seed.
RECURSIVE RunSublayers(_, _, _, _, _, _, _)
RunSublayers(layers, c, x, ps, ss, rngs, n) ==
  IF n = 0 THEN x
  ELSE ApplySublayer(layers[n], c,
                     RunSublayers(layers, c, x, ps, ss, rngs, n - 1),
                     ps[n], ss[n], rngs[n])

\* tl.Serial.forward, which both classes inherit.
Serial_forward(c, x, ps, ss, r) ==
  Returned(RunSublayers(sublayers(c.layer), c, x, ps, ss,
                        pop_rng_and_split(r, n_layers(c.layer)),
                        n_layers(c.layer)))

(***************************************************************************)
(* ReversibleHalfResidual                                                  *)
(***************************************************************************)
\* ReversibleHalfResidual.reverse
HalfResidual_reverse(c, output, ps, ss, r) ==
  LET rngs == split_rngs(r, n_layers(c.layer))
      layers == reverse_layers(c.layer)
      \* zip(self.reverse_layers, params, state, rngs) ends with the shortest
      n == Min({Len(layers), Len(ps), Len(ss), Len(rngs)})
  IN  Returned(RunSublayers(layers, c, output, ps, ss, rngs, n))

\* A plausible slip: the cotangent of the residual is taken from the second
\* stream.
residual_ct_Second(cts) == <<cts[2], cts[1], cts[2]>>

\* ct = ((ct[0], ct[0], ct[1])): back-propagation through the Add.
residual_ct(cts) == <<cts[1], cts[1], cts[2]>>

\* A plausible slip: the emptiness of the last parameter structure is not
\* asserted.
params_are_empty_Unchecked(p) == TRUE

\* assert not jax.tree_util.tree_leaves(p)
params_are_empty(p) == tree_leaves(p) = <<>>

\* ReversibleHalfResidual.reverse_and_grad
HalfResidual_reverse_and_grad(c, output, cts, ps, ss, r) ==
  LET rngs == split_rngs(r, n_layers(c.layer))
      last == Len(ps)
      c3 == residual_ct(cts)
      stack_with_residual == compute_residual(c, output, ps[1], ss[1], rngs[1])
      vjpfun == compute_residual_vjp(c, output, ps[1], ss[1], rngs[1], c3)
      reconstructed_x == subtract_top(stack_with_residual)
  IN  IF Len(cts) # 2 THEN Failure("AssertionError")
      ELSE IF ~params_are_empty(ps[last]) THEN Failure("AssertionError")
      ELSE [status |-> "ok",
            out |-> reconstructed_x,
            x_ct |-> vjpfun.x_ct,
            params_ct |-> <<vjpfun.params_ct, ps[last]>>]

(***************************************************************************)
(* ReversibleAttentionHalfResidual                                         *)
(***************************************************************************)
\* ReversibleAttentionHalfResidual.reverse: the loop calls layer.reverse on
\* each entry of reverse_layers, and the attribute lookup fails on the
\* first entry that is no ReversibleLayer.
AttentionHalfResidual_reverse(c, output, ps, ss, r) ==
  LET rngs == split_rngs(r, n_layers(c.layer))
      layers == reverse_layers(c.layer)
      n == Min({Len(layers), Len(ps), Len(ss), Len(rngs)})
  IN  IF n = 0 THEN Returned(output)
      ELSE IF ~HasReverse(SublayerClass(layers[1]))
        THEN Failure("AttributeError")
      ELSE Failure("NotModelled")

\* A plausible slip: the substitutes are the first three entries (q, k, v).
dummy_inputs_First(stack) == <<stack[1], stack[2], stack[3]>>

\* dummy_inputs = (stack[-3], stack[-2], stack[-1]): the last three entries
\* of pre_attention's output stand in for the inputs of post_attention.
dummy_inputs(stack) ==
  <<stack[Len(stack) - 2], stack[Len(stack) - 1], stack[Len(stack)]>>

\* ReversibleAttentionHalfResidual.reverse_and_grad
AttentionHalfResidual_reverse_and_grad(c, output, cts, ps, ss, r) ==
  LET rngs == split_rngs(r, n_layers(c.layer))
      last == Len(ps)
      \* forward pass through self.pre_attention
      stack0 == pre_attention(c, output, ps[1], ss[1], rngs[1])
      saved_ct == residual_ct(cts)
      \* back-propagation through self.post_attention at the dummy inputs
      post_ct == post_attention_vjp_x(c, dummy_inputs(stack0), ps[3], ss[3],
                                      rngs[3], saved_ct)
      \* forward and backward pass through the attention
      fb == ApplyAttentionWrapper_forward_and_backward(c, stack0, post_ct,
                                                       rngs[2])
      \* back-propagation through self.pre_attention
      pre == pre_attention_vjp(c, output, ps[1], ss[1], rngs[1], fb.ct)
      \* forward pass of self.post_attention, and its parameter cotangent
      stack2 == post_attention(c, fb.out, ps[3], ss[3], rngs[3])
      post_params_ct == post_attention_vjp_p(c, fb.out, ps[3], ss[3], rngs[3],
                                             saved_ct)
      reconstructed_x == subtract_top(stack2)
  IN  IF Len(cts) # 2 THEN Failure("AssertionError")
      ELSE IF ~params_are_empty(ps[2]) THEN Failure("AssertionError")
      ELSE IF ~params_are_empty(ps[last]) THEN Failure("AssertionError")
      ELSE [status |-> "ok",
            out |-> reconstructed_x,
            x_ct |-> pre.x_ct,
            params_ct |-> <<pre.params_ct, ps[2], post_params_ct, ps[last]>>]

(***************************************************************************)
(* The constructors.  A constructor returns "ok" or the exception it       *)
(* raises.                                                                 *)
(***************************************************************************)
\* A plausible slip: the wrapper takes any attention object.
ApplyAttentionWrapper_init_Unchecked(fb) == "ok"

\* ApplyAttentionWrapper.__init__: the assert is its first statement.
ApplyAttentionWrapper_init(fb) == IF fb THEN "ok" ELSE "AssertionError"

\* ReversibleAttentionHalfResidual.__init__: the assert comes before the
\* wrapper is built, and both come before tl.Serial.__init__.
AttentionHalfResidual_init(fb) ==
  IF ~fb THEN "AssertionError" ELSE ApplyAttentionWrapper_init(fb)

\* ReversibleHalfResidual.__init__ asks nothing of its residual layers.
HalfResidual_init == "ok"

(***************************************************************************)
(* The layers under test and the calls made on them.                       *)
(***************************************************************************)
Vals == 0..MaxVal

Cts == 1..MaxCt

Seeds == {NoneRng, <<0>>, <<1>>}

States == {0, 1}

\* The two leaves of the sublayers' weights.
Weights == {<<1, 3>>, <<2, 1>>}

Configs ==
  {[layer |-> "half", res |-> k, attn |-> "dot", post |-> "linear"] :
      k \in {"affine", "square", "dropout"}}
  \cup
  {[layer |-> l, res |-> "chain", attn |-> "dot", post |-> k] :
      l \in {"half", "attn"}, k \in {"linear", "dropout", "nonlinear"}}
  \cup
  {[layer |-> l, res |-> "chain", attn |-> "lsh", post |-> "linear"] :
      l \in {"half", "attn"}}

\* Parameter structures of the sublayers that have no weights: the empty
\* structures the combinators build, and one that holds a leaf.
EmptyParams == [shape |-> "()", leaves |-> <<>>]

EmptyPair == [shape |-> "((), ())", leaves |-> <<>>]

EmptyTriple == [shape |-> "((), (), ())", leaves |-> <<>>]

LeafParams == [shape |-> "((w,), ())", leaves |-> <<1>>]

\* The parameter list of a ReversibleHalfResidual: [residual, add].
HalfParams(w, add) ==
  <<[shape |-> "residual", leaves |-> w], add>>

\* The parameter list of a ReversibleAttentionHalfResidual:
\* [pre_attention, attention, post_attention, add].
AttentionParams(w, att, add) ==
  <<[shape |-> "pre_attention", leaves |-> <<w[1]>>], att,
    [shape |-> "post_attention", leaves |-> <<w[2]>>], add>>

ParamLists(c) ==
  IF c.layer = "half"
    THEN {HalfParams(w, add) :
            w \in Weights, add \in {EmptyPair, EmptyParams, LeafParams}}
    ELSE {AttentionParams(w, pa[1], pa[2]) :
            w \in Weights,
            pa \in {<<EmptyTriple, EmptyPair>>, <<LeafParams, EmptyPair>>,
                    <<EmptyTriple, LeafParams>>}}

\* The state list: the first sublayer holds st, the others hold nothing.
StateList(c, st) == [i \in 1..n_layers(c.layer) |-> IF i = 1 THEN st ELSE 0]

Init ==
  /\ RepIdle /\ ShapeDtypeIdle /\ ArraysIdle /\ BlockIdle /\ SplitIdle
  /\ ReformerIdle
  /\ cfg \in Configs
  /\ params \in ParamLists(cfg)
  /\ state \in {StateList(cfg, st) : st \in States}
  /\ inputs \in {<<x1, x2>> : x1 \in Vals, x2 \in Vals}
  /\ rng \in Seeds
  /\ fwd = NoResult
  /\ rev = NoResult
  /\ ct = <<>>
  /\ rag = NoResult
  /\ has_fb \in BOOLEAN
  /\ built = "none"
  /\ wrapper = "none"
  /\ override_backend_name = NoneName
  /\ gin_name = "jax"
  /\ frames = <<>>
  /\ exc = FALSE
  /\ last_call = NoCall
  /\ last_wrapper = NoWrapperCall
  /\ last_exit = NoExit
  /\ ThreadsIdle
  /\ OpsIdle

\* attention_wrapper = ApplyAttentionWrapper(attention), on its own.
ConstructWrapper ==
  /\ built = "none"
  /\ wrapper = "none"
  /\ wrapper' = ApplyAttentionWrapper_init(has_fb)
  /\ UNCHANGED <<cfg, params, state, inputs, rng, fwd, rev, ct, rag, has_fb,
               built, backendVars, threadVars, opVars, extraVars>>

\* layer = ReversibleHalfResidual(residual_layers), or
\* layer = ReversibleAttentionHalfResidual(pre_attention, attention,
\* post_attention); a constructor that raises leaves no layer to call.
Construct ==
  /\ built = "none"
  /\ built' = IF cfg.layer = "half" THEN HalfResidual_init
              ELSE AttentionHalfResidual_init(has_fb)
  /\ UNCHANGED <<cfg, params, state, inputs, rng, fwd, rev, ct, rag, has_fb,
               wrapper, backendVars, threadVars, opVars, extraVars>>

\* layer(inputs, params=params, state=state, rng=rng)
Forward ==
  /\ built = "ok"
  /\ fwd.status = "none"
  /\ fwd' = Serial_forward(cfg, inputs, params, state, rng)
  /\ UNCHANGED <<cfg, params, state, inputs, rng, rev, ct, rag, has_fb,
               built, wrapper, backendVars, threadVars, opVars, extraVars>>

\* layer.reverse(output, params=params, state=state, rng=rng)
Reverse ==
  /\ fwd.status = "ok"
  /\ rev.status = "none"
  /\ rev' = IF cfg.layer = "half"
              THEN HalfResidual_reverse(cfg, fwd.out, params, state, rng)
              ELSE AttentionHalfResidual_reverse(cfg, fwd.out, params, state, rng)
  /\ UNCHANGED <<cfg, params, state, inputs, rng, fwd, ct, rag, has_fb,
               built, wrapper, backendVars, threadVars, opVars, extraVars>>

\* layer.reverse_and_grad(output, ct, params=params, state=state, rng=rng)
ReverseAndGrad(cts) ==
  /\ rev.status # "none"
  /\ rag.status = "none"
  /\ ct' = cts
  /\ rag' = IF cfg.layer = "half"
              THEN HalfResidual_reverse_and_grad(cfg, fwd.out, cts, params,
                                                 state, rng)
              ELSE AttentionHalfResidual_reverse_and_grad(cfg, fwd.out, cts,
                                                          params, state, rng)
  /\ UNCHANGED <<cfg, params, state, inputs, rng, fwd, rev, has_fb,
               built, wrapper, backendVars, threadVars, opVars, extraVars>>

Next ==
  \/ ConstructWrapper
  \/ Construct
  \/ Forward
  \/ Reverse
  \/ \E c1 \in Cts, c2 \in Cts : ReverseAndGrad(<<c1, c2>>)

Spec == Init /\ [][Next]_vars

(***************************************************************************)
(* reformer.py: Map, a combinator that applies one layer to every element  *)
(* of a tuple.                                                             *)
(***************************************************************************)
MaxSections == 3

\* The backend shim is left alone: no scope is open and no override is set.
BackendIdle ==
  /\ override_backend_name = NoneName
  /\ gin_name = "jax"
  /\ frames = <<>>
  /\ exc = FALSE
  /\ last_call = NoCall
  /\ last_wrapper = NoWrapperCall
  /\ last_exit = NoExit

\* tl.Layer.initialize_once(shape, dtype, rng) of the wrapped layer: what it
\* returns is determined by the three arguments it was given.
initialize_once(shape, dtype, r) == [shape |-> shape, dtype |-> dtype, rng |-> r]

\* tl.Layer.__call__ of the wrapped layer: its output is determined by the
\* input, the parameters, the state and the seed it was given.
apply_layer(x, p, st, r) == [x |-> x, params |-> p, state |-> st, rng |-> r]

\* A plausible slip: check_shapes is ignored and the shapes always compared.
Map_new_params_and_state_AlwaysChecked(layer, input_shape, input_dtype, r) ==
  IF layer.n_sections = 1
    THEN [status |-> "ok",
          inits |-> <<initialize_once(input_shape, input_dtype, r)>>]
  ELSE IF \E i \in 1..Len(input_shape) : input_shape[i] # input_shape[1]
    THEN [status |-> "ValueError", inits |-> <<>>]
  ELSE [status |-> "ok",
        inits |-> <<initialize_once(input_shape[1], input_dtype[1], r)>>]

\* Map.new_params_and_state; inits lists the initialize_once calls made, the
\* value of the last one being what the method returns.
Map_new_params_and_state(layer, input_shape, input_dtype, r) ==
  IF layer.n_sections = 1
    THEN [status |-> "ok",
          inits |-> <<initialize_once(input_shape, input_dtype, r)>>]
  ELSE IF layer.check_shapes
          /\ \E i \in 1..Len(input_shape) : input_shape[i] # input_shape[1]
    THEN [status |-> "ValueError", inits |-> <<>>]
  ELSE [status |-> "ok",
        inits |-> <<initialize_once(input_shape[1], input_dtype[1], r)>>]

\* A plausible slip: every element is given the unsplit rng.
Map_forward_SharedRng(layer, xs, p, st, r) ==
  IF layer.n_sections = 1
    THEN [status |-> "ok", out |-> apply_layer(xs, p, st, r), state |-> st]
    ELSE [status |-> "ok",
          out |-> [i \in 1..Len(xs) |-> apply_layer(xs[i], p, st, r)],
          state |-> st]

\* Map.forward: (results, self._layer.state)
Map_forward(layer, xs, p, st, r) ==
  IF layer.n_sections = 1
    THEN [status |-> "ok", out |-> apply_layer(xs, p, st, r), state |-> st]
    ELSE LET rngs == pop_rng_and_split(r, Len(xs))
         IN  [status |-> "ok",
              out |-> [i \in 1..Len(xs) |-> apply_layer(xs[i], p, st, rngs[i])],
              state |-> st]

\* The shapes and dtypes of the elements a Map is initialised with.
Shapes == {<<2, 3>>, <<2, 4>>}

Dtypes == {"float32", "int32"}

\* All tuples of length n over S.
Tuples(S, n) == [1..n -> S]

\* Map(layer, n_sections=n, check_shapes=c)
Maps == [n_sections : 1..MaxSections, check_shapes : BOOLEAN]

InitMap ==
  /\ RepIdle /\ ShapeDtypeIdle /\ ArraysIdle /\ BlockIdle /\ SplitIdle
  /\ ReformerIdle
  /\ map_layer \in Maps
  /\ map_call = NoOpCall
  /\ map_ret = NoOpResult
  /\ chunk_x0 = [shape |-> <<>>, data |-> <<>>]
  /\ chunk_n = 1
  /\ chunk_hist = <<>>
  /\ chunk_cur = NoOpResult
  /\ drop_call = NoOpCall
  /\ drop_ret = NoOpResult
  /\ dev_call = NoOpCall
  /\ dev_ret = NoOpResult
  /\ dev_back = NoOpResult
  /\ BackendIdle
  /\ ThreadsIdle
  /\ LayersIdle

\* map.new_params_and_state(input_shape, input_dtype, rng): one shape and
\* one dtype when n_sections = 1, a tuple of n_sections of each otherwise.
MapInitialize(input_shape, input_dtype, r) ==
  /\ map_call = NoOpCall
  /\ map_call' = [op |-> "new_params_and_state", input_shape |-> input_shape,
                  input_dtype |-> input_dtype, rng |-> r]
  /\ map_ret' = Map_new_params_and_state(map_layer, input_shape, input_dtype, r)
  /\ UNCHANGED <<map_layer, chunkVars, dropVars, devVars, backendVars,
               threadVars, layerVars, extraVars>>

\* map.forward(inputs, params=p, state=st, rng=r): one array when
\* n_sections = 1, a tuple of n_sections arrays otherwise.
MapForward(xs, p, st, r) ==
  /\ map_call = NoOpCall
  /\ map_call' = [op |-> "forward", inputs |-> xs, params |-> p, state |-> st,
                  rng |-> r]
  /\ map_ret' = Map_forward(map_layer, xs, p, st, r)
  /\ UNCHANGED <<map_layer, chunkVars, dropVars, devVars, backendVars,
               threadVars, layerVars, extraVars>>

\* What a Map of n sections is handed: one value of S when n = 1, a tuple
\* of n values of S otherwise.
Sections(S, n) == IF n = 1 THEN S ELSE Tuples(S, n)

NextMap ==
  \/ \E sh \in Sections(Shapes, map_layer.n_sections),
        dt \in Sections(Dtypes, map_layer.n_sections),
        r \in Seeds : MapInitialize(sh, dt, r)
  \/ \E xs \in Sections(Vals, map_layer.n_sections),
        p \in {1, 2}, st \in States, r \in Seeds : MapForward(xs, p, st, r)

SpecMap == InitMap /\ [][NextMap]_vars

(***************************************************************************)
(* reformer.py: Chunk and Unchunk.  An array is its shape and its elements *)
(* in row-major order, which is the order numpy.reshape keeps.             *)
(***************************************************************************)
MaxBatch == 3
MaxLen == 4

RECURSIVE Product(_)
Product(shape) ==
  IF shape = <<>> THEN 1 ELSE Head(shape) * Product(Tail(shape))

\* The position, from 0, of the element at the 0-based index idx.
RECURSIVE FlatIndex(_, _)
FlatIndex(shape, idx) ==
  IF shape = <<>> THEN 0
  ELSE Head(idx) * Product(Tail(shape)) + FlatIndex(Tail(shape), Tail(idx))

\* x[idx]
At(x, idx) == x.data[FlatIndex(x.shape, idx) + 1]

\* backend.numpy.reshape(x, shape), the sizes being equal.
reshape(x, shape) == [shape |-> shape, data |-> x.data]

NoArray == [shape |-> <<>>, data |-> <<>>]

Raised(kind, x) == [status |-> kind, arg |-> x, out |-> NoArray]

\* A plausible slip: the time sections are split off and concatenated along
\* the batch axis, so that section j of example b becomes row j*B + b.
Chunk_SectionMajor(x, n_sections) ==
  IF x.shape[2] % n_sections # 0 THEN Raised("AssertionError", x)
  ELSE LET B == x.shape[1]
           L == x.shape[2]
           inner == (L \div n_sections) * Product(SubSeq(x.shape, 3, Len(x.shape)))
           src(k) == ((k \div inner) % B) * n_sections * inner
                       + ((k \div inner) \div B) * inner + (k % inner)
       IN  [status |-> "ok", arg |-> x,
            out |-> [shape |-> <<B * n_sections, L \div n_sections>>
                                 \o SubSeq(x.shape, 3, Len(x.shape)),
                     data |-> [k \in 1..Len(x.data) |-> x.data[src(k - 1) + 1]]]]

\* def Chunk(x, params, n_sections=2, **kwargs)
Chunk(x, n_sections) ==
  IF x.shape[2] % n_sections # 0 THEN Raised("AssertionError", x)
  ELSE [status |-> "ok", arg |-> x,
        out |-> reshape(x, <<x.shape[1] * n_sections, x.shape[2] \div n_sections>>
                             \o SubSeq(x.shape, 3, Len(x.shape)))]

\* A plausible slip: no assert, the rows that do not fill a group are dropped.
Unchunk_Truncating(x, n_sections) ==
  LET shape == <<x.shape[1] \div n_sections, x.shape[2] * n_sections>>
                 \o SubSeq(x.shape, 3, Len(x.shape))
  IN  [status |-> "ok", arg |-> x,
       out |-> [shape |-> shape, data |-> SubSeq(x.data, 1, Product(shape))]]

\* def Unchunk(x, params, n_sections=2, **kwargs)
Unchunk(x, n_sections) ==
  IF x.shape[1] % n_sections # 0 THEN Raised("AssertionError", x)
  ELSE [status |-> "ok", arg |-> x,
        out |-> reshape(x, <<x.shape[1] \div n_sections, x.shape[2] * n_sections>>
                             \o SubSeq(x.shape, 3, Len(x.shape)))]

\* Arrays of rank 2 and 3 whose elements are all different.
ArrayShapes ==
  {<<b, l>> : b \in 1..MaxBatch, l \in 1..MaxLen}
    \cup {<<b, l, 2>> : b \in 1..MaxBatch, l \in 1..MaxLen}

Arrays == {[shape |-> sh, data |-> [k \in 1..Product(sh) |-> k]] : sh \in ArrayShapes}

InitChunk ==
  /\ RepIdle /\ ShapeDtypeIdle /\ ArraysIdle /\ BlockIdle /\ SplitIdle
  /\ ReformerIdle
  /\ chunk_x0 \in Arrays
  /\ chunk_n \in 1..MaxSections
  /\ chunk_hist = <<>>
  /\ chunk_cur = NoOpResult
  /\ map_layer = [n_sections |-> 1, check_shapes |-> TRUE]
  /\ map_call = NoOpCall
  /\ map_ret = NoOpResult
  /\ drop_call = NoOpCall
  /\ drop_ret = NoOpResult
  /\ dev_call = NoOpCall
  /\ dev_ret = NoOpResult
  /\ dev_back = NoOpResult
  /\ BackendIdle
  /\ ThreadsIdle
  /\ LayersIdle

\* The array the next layer is applied to: the input, or what the previous
\* layer returned.
ChunkInput == IF chunk_hist = <<>> THEN chunk_x0 ELSE chunk_cur.out

\* Chunk(n_sections=n) is applied.
ApplyChunk ==
  /\ Len(chunk_hist) < 2
  /\ chunk_hist # <<>> => chunk_cur.status = "ok"
  /\ chunk_cur' = Chunk(ChunkInput, chunk_n)
  /\ chunk_hist' = Append(chunk_hist, "Chunk")
  /\ UNCHANGED <<chunk_x0, chunk_n, mapVars, dropVars, devVars, backendVars,
               threadVars, layerVars, extraVars>>

\* Unchunk(n_sections=n) is applied.
ApplyUnchunk ==
  /\ Len(chunk_hist) < 2
  /\ chunk_hist # <<>> => chunk_cur.status = "ok"
  /\ chunk_cur' = Unchunk(ChunkInput, chunk_n)
  /\ chunk_hist' = Append(chunk_hist, "Unchunk")
  /\ UNCHANGED <<chunk_x0, chunk_n, mapVars, dropVars, devVars, backendVars,
               threadVars, layerVars, extraVars>>

NextChunk ==
  \/ ApplyChunk
  \/ ApplyUnchunk

SpecChunk == InitChunk /\ [][NextChunk]_vars

(***************************************************************************)
(* reformer.py: BroadcastedDropout.  The rate is held as twice its value,  *)
(* so that the rates -1/2, 0, 1/2, 1 and 3/2 are integers; at rate 1/2 the *)
(* multiplier keep / keep_prob is 0 or 2.                                  *)
(***************************************************************************)
TwiceRates == {-1, 0, 1, 2, 3}

Modes == {"train", "eval", "predict"}

\* A plausible slip: the draws are taken from the module-level generator.
bernoulli_Global(r, k) == (gen_state + k) % 2

\* backend.random.bernoulli(rng, keep_prob, noise_shape): the k-th draw,
\* from 0, of the seed r.
bernoulli(r, k) == (SeedSum(r) + Len(r) + k) % 2

DropoutRaised(message) ==
  [status |-> "ValueError", message |-> message, out |-> NoArray]

\* x * multiplier, for an x of rank 2 and broadcast_dims = (-2,): the noise
\* has shape (1, x.shape[1]), one draw per column.
dropout_train(x, rate2, r) ==
  [shape |-> x.shape,
   data |-> [k \in 1..Len(x.data) |->
               x.data[k] * ((2 * bernoulli(r, (k - 1) % x.shape[2]))
                              \div (2 - rate2))]]

\* A plausible slip: the rate is checked before the rng.
BroadcastedDropout_RateFirst(x, rate2, mode, r) ==
  IF rate2 >= 2 THEN DropoutRaised("Dropout rate must be lower than 1.")
  ELSE IF r = NoneRng
    THEN DropoutRaised("BroadcastedDropout requires rng kwarg.")
  ELSE IF mode = "train" /\ rate2 > 0
    THEN [status |-> "ok", message |-> "", out |-> dropout_train(x, rate2, r)]
  ELSE [status |-> "ok", message |-> "", out |-> x]

\* A plausible slip: the mode is not looked at.
BroadcastedDropout_AnyMode(x, rate2, mode, r) ==
  IF r = NoneRng
    THEN DropoutRaised("BroadcastedDropout requires rng kwarg.")
  ELSE IF rate2 >= 2 THEN DropoutRaised("Dropout rate must be lower than 1.")
  ELSE IF rate2 > 0
    THEN [status |-> "ok", message |-> "", out |-> dropout_train(x, rate2, r)]
  ELSE [status |-> "ok", message |-> "", out |-> x]

\* def BroadcastedDropout(x, params, rate=0.0, mode='train',
\*                        broadcast_dims=(-2,), rng=None, **kwargs)
BroadcastedDropout(x, rate2, mode, r) ==
  IF r = NoneRng
    THEN DropoutRaised("BroadcastedDropout requires rng kwarg.")
  ELSE IF rate2 >= 2 THEN DropoutRaised("Dropout rate must be lower than 1.")
  ELSE IF mode = "train" /\ rate2 > 0
    THEN [status |-> "ok", message |-> "", out |-> dropout_train(x, rate2, r)]
  ELSE [status |-> "ok", message |-> "", out |-> x]

\* A plausible slip: the noise is drawn with the shape of x, so that no
\* dimension is broadcast.
noise_shape_Full(x, broadcast_dims) == x.shape

\* noise_shape = list(x.shape); for dim in broadcast_dims: noise_shape[dim] = 1
noise_shape(x, broadcast_dims) ==
  [d \in 1..Len(x.shape) |->
     IF \E j \in 1..Len(broadcast_dims) :
          Len(x.shape) + broadcast_dims[j] + 1 = d
       THEN 1 ELSE x.shape[d]]

\* The draw that multiplies x[r, c], from 1: the element of the noise that
\* broadcasting aligns with it.
NoiseIndex(shape, r, c) ==
  (IF shape[1] = 1 THEN 0 ELSE (r - 1) * shape[2])
    + (IF shape[2] = 1 THEN 0 ELSE c - 1)

\* x * multiplier for an x of rank 2 and any broadcast_dims.
dropout_train_dims(x, rate2, broadcast_dims, r) ==
  [shape |-> x.shape,
   data |-> [k \in 1..Len(x.data) |->
               x.data[k]
                 * ((2 * bernoulli(r, NoiseIndex(noise_shape(x, broadcast_dims),
                                                 ((k - 1) \div x.shape[2]) + 1,
                                                 ((k - 1) % x.shape[2]) + 1)))
                      \div (2 - rate2))]]

\* BroadcastedDropout with broadcast_dims given.
BroadcastedDropout_dims(x, rate2, mode, broadcast_dims, r) ==
  IF r = NoneRng
    THEN DropoutRaised("BroadcastedDropout requires rng kwarg.")
  ELSE IF rate2 >= 2 THEN DropoutRaised("Dropout rate must be lower than 1.")
  ELSE IF mode = "train" /\ rate2 > 0
    THEN [status |-> "ok", message |-> "",
          out |-> dropout_train_dims(x, rate2, broadcast_dims, r)]
  ELSE [status |-> "ok", message |-> "", out |-> x]

\* The values of broadcast_dims: none, the default, the last axis, both.
BroadcastDims == {<<>>, <<-2>>, <<-1>>, <<-2, -1>>}

\* The arrays of rank 2.
Matrices == {a \in Arrays : Len(a.shape) = 2}

InitDropout ==
  /\ RepIdle /\ ShapeDtypeIdle /\ ArraysIdle /\ BlockIdle /\ SplitIdle
  /\ ReformerIdle
  /\ drop_call = NoOpCall
  /\ drop_ret = NoOpResult
  /\ map_layer = [n_sections |-> 1, check_shapes |-> TRUE]
  /\ map_call = NoOpCall
  /\ map_ret = NoOpResult
  /\ chunk_x0 = [shape |-> <<>>, data |-> <<>>]
  /\ chunk_n = 1
  /\ chunk_hist = <<>>
  /\ chunk_cur = NoOpResult
  /\ dev_call = NoOpCall
  /\ dev_ret = NoOpResult
  /\ dev_back = NoOpResult
  /\ BackendIdle
  /\ ThreadsIdle
  /\ LayersIdle

\* BroadcastedDropout(rate=rate, mode=mode) is applied to x with the seed r.
DropoutCall(x, rate2, mode, r) ==
  /\ drop_call = NoOpCall
  /\ drop_call' = [op |-> "BroadcastedDropout", x |-> x, rate2 |-> rate2,
                   mode |-> mode, rng |-> r]
  /\ drop_ret' = BroadcastedDropout(x, rate2, mode, r)
  /\ UNCHANGED <<mapVars, chunkVars, devVars, backendVars, threadVars,
               layerVars, extraVars>>

\* The same with broadcast_dims given.
DropoutCallDims(x, rate2, mode, broadcast_dims, r) ==
  /\ drop_call = NoOpCall
  /\ drop_call' = [op |-> "BroadcastedDropout", x |-> x, rate2 |-> rate2,
                   mode |-> mode, rng |-> r, broadcast_dims |-> broadcast_dims]
  /\ drop_ret' = BroadcastedDropout_dims(x, rate2, mode, broadcast_dims, r)
  /\ UNCHANGED <<mapVars, chunkVars, devVars, backendVars, threadVars,
               layerVars, extraVars>>

NextDropout ==
  \/ \E x \in Matrices, rate2 \in TwiceRates, mode \in Modes, r \in Seeds :
       DropoutCall(x, rate2, mode, r)
  \/ \E x \in Matrices, rate2 \in TwiceRates, mode \in Modes,
        broadcast_dims \in BroadcastDims, r \in Seeds :
       DropoutCallDims(x, rate2, mode, broadcast_dims, r)

SpecDropout == InitDropout /\ [][NextDropout]_vars

(***************************************************************************)
(* backend.py: reshape_by_device.  A nested structure is a leaf holding an *)
(* array, or a list, tuple or dict of nested structures; the items of a    *)
(* list or tuple are indexed from 1, those of a dict by their keys.        *)
(***************************************************************************)
MaxDevices == 3

Leaf(a) == [kind |-> "leaf", x |-> a]

Nest(kind, items) == [kind |-> kind, items |-> items]

\* The exception a call on a leaf raised, held in the leaf's place.
RaisedLeaf(kind) == [kind |-> "raised", error |-> kind]

\* def nested_map(f, x), f being a function on the leaves.
RECURSIVE nested_map(_, _)
nested_map(f, x) ==
  IF x.kind \in {"list", "tuple", "dict"}
    THEN Nest(x.kind, [k \in DOMAIN x.items |-> nested_map(f, x.items[k])])
    ELSE f[x]

\* The exceptions raised anywhere in a mapped structure.
RECURSIVE Errors(_)
Errors(y) ==
  IF y.kind = "raised" THEN {y.error}
  ELSE IF y.kind = "leaf" THEN {}
  ELSE UNION {Errors(y.items[k]) : k \in DOMAIN y.items}

\* A plausible slip: the divisibility is not checked, and the rows beyond
\* n_devices * batch_size_per_device are dropped.
reshape_by_device_single_Unchecked(x, n_devices) ==
  LET batch_size_per_device == x.x.shape[1] \div n_devices
      new_shape == <<n_devices, batch_size_per_device>> \o Tail(x.x.shape)
  IN  Leaf([shape |-> new_shape,
            data |-> SubSeq(x.x.data, 1, Product(new_shape))])

\* def _reshape_by_device_single(x, n_devices)
reshape_by_device_single(x, n_devices) ==
  LET x_shape == x.x.shape
      batch_size == x_shape[1]
      batch_size_per_device == batch_size \div n_devices
      new_shape_prefix == <<n_devices, batch_size_per_device>>
  IN  IF batch_size_per_device * n_devices # batch_size
        THEN RaisedLeaf("ValueError")
        ELSE Leaf(reshape(x.x, new_shape_prefix \o Tail(x_shape)))

\* The leaves of a nested structure.
RECURSIVE LeavesOf(_)
LeavesOf(x) ==
  IF x.kind = "leaf" THEN {x}
  ELSE UNION {LeavesOf(x.items[k]) : k \in DOMAIN x.items}

\* def reshape_by_device(x, n_devices): an exception raised on a leaf ends
\* the call.
reshape_by_device(x, n_devices) ==
  LET single == [y \in LeavesOf(x) |-> reshape_by_device_single(y, n_devices)]
      mapped == nested_map(single, x)
  IN  IF Errors(mapped) # {}
        THEN [status |-> "ValueError", out |-> Leaf(NoArray)]
        ELSE [status |-> "ok", out |-> mapped]

\* A plausible slip: only leaves of rank 3 and more are merged.
combine_single_RankThree(x) ==
  IF Len(x.x.shape) < 3 THEN x
  ELSE Leaf(reshape(x.x, <<x.x.shape[1] * x.x.shape[2]>>
                           \o SubSeq(x.x.shape, 3, Len(x.x.shape))))

\* def combine_single(x), inside combine_devices
combine_single(x) ==
  IF Len(x.x.shape) < 2 THEN x
  ELSE LET batch_size == x.x.shape[1] * x.x.shape[2]
       IN  Leaf(reshape(x.x, <<batch_size>>
                               \o SubSeq(x.x.shape, 3, Len(x.x.shape))))

\* def combine_devices(x_tuple)
combine_devices(x_tuple) ==
  LET single == [y \in LeavesOf(x_tuple) |-> combine_single(y)]
  IN  [status |-> "ok", out |-> nested_map(single, x_tuple)]

\* Arrays of rank 1 and 2, and the structures built of them.
DeviceLeaves ==
  {Leaf([shape |-> sh, data |-> [k \in 1..Product(sh) |-> k]]) :
     sh \in {<<b>> : b \in 1..MaxBatch} \cup {<<b, 2>> : b \in 1..MaxBatch}}

Nested ==
  DeviceLeaves
    \cup {Nest(kind, <<a, b>>) :
            kind \in {"list", "tuple"}, a \in DeviceLeaves, b \in DeviceLeaves}
    \cup {Nest("dict", [k \in {"inputs", "targets"} |->
                          IF k = "inputs" THEN a ELSE b]) :
            a \in DeviceLeaves, b \in DeviceLeaves}
    \cup {Nest("tuple", <<Nest("list", <<a>>), b>>) :
            a \in DeviceLeaves, b \in DeviceLeaves}

InitDevices ==
  /\ RepIdle /\ ShapeDtypeIdle /\ ArraysIdle /\ BlockIdle /\ SplitIdle
  /\ ReformerIdle
  /\ dev_call = NoOpCall
  /\ dev_ret = NoOpResult
  /\ dev_back = NoOpResult
  /\ map_layer = [n_sections |-> 1, check_shapes |-> TRUE]
  /\ map_call = NoOpCall
  /\ map_ret = NoOpResult
  /\ chunk_x0 = [shape |-> <<>>, data |-> <<>>]
  /\ chunk_n = 1
  /\ chunk_hist = <<>>
  /\ chunk_cur = NoOpResult
  /\ drop_call = NoOpCall
  /\ drop_ret = NoOpResult
  /\ BackendIdle
  /\ ThreadsIdle
  /\ LayersIdle

\* reshape_by_device(x, n_devices) is called.
ReshapeByDevice(x, n_devices) ==
  /\ dev_call = NoOpCall
  /\ dev_call' = [op |-> "reshape_by_device", x |-> x, n_devices |-> n_devices]
  /\ dev_ret' = reshape_by_device(x, n_devices)
  /\ UNCHANGED <<dev_back, mapVars, chunkVars, dropVars, backendVars, threadVars,
               layerVars, extraVars>>

\* combine_devices(y), y being what reshape_by_device returned.
CombineDevices ==
  /\ dev_call # NoOpCall
  /\ dev_call.op = "reshape_by_device"
  /\ dev_ret.status = "ok"
  /\ dev_back = NoOpResult
  /\ dev_back' = combine_devices(dev_ret.out)
  /\ UNCHANGED <<dev_call, dev_ret, mapVars, chunkVars, dropVars, backendVars,
               threadVars, layerVars, extraVars>>

\* combine_devices(x) on a structure as it is.
CombineDirect(x) ==
  /\ dev_call = NoOpCall
  /\ dev_call' = [op |-> "combine_devices", x |-> x]
  /\ dev_back' = combine_devices(x)
  /\ UNCHANGED <<dev_ret, mapVars, chunkVars, dropVars, backendVars,
               threadVars, layerVars, extraVars>>

NextDevices ==
  \/ \E x \in Nested, n_devices \in 1..MaxDevices :
       ReshapeByDevice(x, n_devices)
  \/ CombineDevices
  \/ \E x \in Nested : CombineDirect(x)

SpecDevices == InitDevices /\ [][NextDevices]_vars

(***************************************************************************)
(* Calls repeated with the same arguments.  numpy keeps a module-level     *)
(* generator that other code of the process may draw from at any time; the *)
(* layers are handed a seed instead.                                       *)
(***************************************************************************)
\* The states of the module-level generator.
GeneratorStates == {0, 1}

\* The calls that are repeated: BroadcastedDropout, Map.forward on two
\* sections, and reverse and reverse_and_grad of ReversibleHalfResidual.
DropoutCalls ==
  [op : {"BroadcastedDropout"}, x : Matrices, rate2 : TwiceRates,
   mode : Modes, rng : Seeds]

MapCalls ==
  [op : {"Map.forward"}, layer : {[n_sections |-> 2, check_shapes |-> TRUE]},
   inputs : Tuples(Vals, 2), params : {1}, state : {0}, rng : Seeds]

HalfConfigs == {c \in Configs : c.layer = "half"}

ReverseCalls ==
  UNION {[op : {"reverse", "reverse_and_grad"}, cfg : {c},
          output : Tuples(Vals, 2), ct : {<<1, MaxCt>>},
          params : {HalfParams(w, EmptyPair) : w \in Weights},
          state : {StateList(c, 1)}, rng : Seeds] : c \in HalfConfigs}

\* The call made with the arguments it holds.
Invoke(call) ==
  CASE call.op = "BroadcastedDropout" ->
         BroadcastedDropout(call.x, call.rate2, call.mode, call.rng)
    [] call.op = "Map.forward" ->
         Map_forward(call.layer, call.inputs, call.params, call.state, call.rng)
    [] call.op = "reverse" ->
         HalfResidual_reverse(call.cfg, call.output, call.params, call.state,
                              call.rng)
    [] call.op = "reverse_and_grad" ->
         HalfResidual_reverse_and_grad(call.cfg, call.output, call.ct,
                                       call.params, call.state, call.rng)

InitRepeat ==
  /\ RepIdle
  /\ ShapeDtypeIdle /\ ArraysIdle /\ BlockIdle /\ SplitIdle /\ ReformerIdle
  /\ OpsIdle
  /\ BackendIdle
  /\ ThreadsIdle
  /\ LayersIdle

\* The call is made for the first time; gen_before and gen_after are the
\* generator's state when the call began and when it returned.
FirstCall(call) ==
  /\ rep_call = NoOpCall
  /\ rep_call' = call
  /\ gen_state' = gen_state
  /\ rep_first' = [ret |-> Invoke(call), gen_before |-> gen_state,
                   gen_after |-> gen_state']
  /\ UNCHANGED <<rep_second, backendVars, threadVars, layerVars,
               opVars, sdVars, arrVars, blockVars, splitVars, lmVars>>

\* Other code of the process draws from the module-level generator.
OtherCodeDraws ==
  /\ rep_call # NoOpCall
  /\ rep_second = NoOpResult
  /\ gen_state' \in GeneratorStates \ {gen_state}
  /\ UNCHANGED <<rep_call, rep_first, rep_second, backendVars, threadVars,
               layerVars, opVars, sdVars, arrVars, blockVars, splitVars,
               lmVars>>

\* The same call is made again.
SecondCall ==
  /\ rep_call # NoOpCall
  /\ rep_second = NoOpResult
  /\ gen_state' = gen_state
  /\ rep_second' = [ret |-> Invoke(rep_call), gen_before |-> gen_state,
                    gen_after |-> gen_state']
  /\ UNCHANGED <<rep_call, rep_first, backendVars, threadVars,
               layerVars, opVars, sdVars, arrVars, blockVars, splitVars,
               lmVars>>

NextRepeat ==
  \/ \E call \in DropoutCalls : FirstCall(call)
  \/ \E call \in MapCalls : FirstCall(call)
  \/ \E call \in ReverseCalls : FirstCall(call)
  \/ OtherCodeDraws
  \/ SecondCall

SpecRepeat == InitRepeat /\ [][NextRepeat]_vars

(***************************************************************************)
(* shapes.py: ShapeDtype and shape_dtype_for.  A shape is a tuple of ints, *)
(* a dtype a tag.  The instance held in sd_obj is a record of its two      *)
(* slots; sd_made keeps the arguments it was constructed from and sd_last  *)
(* the last operation performed on it.                                     *)
(***************************************************************************)
SdShapes == {<<>>, <<2>>, <<2, 3>>, <<2, 4>>}

\* __slots__ = ['shape', 'dtype']
ShapeDtype_slots == {"shape", "dtype"}

\* dtype=onp.float32
ShapeDtype_default_dtype == "float32"

\* def __init__(self, shape, dtype=onp.float32)
ShapeDtype_init(shape, dtype) ==
  [status |-> "ok", shape |-> shape, dtype |-> dtype]

\* def __repr__(self)
ShapeDtype_repr(self) ==
  <<"ShapeDtype{shape:", self.shape, ", dtype:", self.dtype, "}">>

\* def shape_dtype_for(obj)
shape_dtype_for(obj) == ShapeDtype_init(obj.shape, obj.dtype)

\* The attribute names code may try to assign on an instance.
SdNames == ShapeDtype_slots \cup {"size"}

SdValues(name) == IF name = "dtype" THEN Dtypes ELSE SdShapes

\* self.<name> = value: the class defines no __setattr__, so a slot is
\* assigned and any other name, there being no __dict__, raises
\* AttributeError.
ShapeDtype_setattr(self, name, value) ==
  IF name \in ShapeDtype_slots
    THEN [self EXCEPT ![name] = value]
    ELSE self

InitShape ==
  /\ ShapeDtypeIdle
  /\ RepIdle /\ ArraysIdle /\ BlockIdle /\ SplitIdle /\ ReformerIdle
  /\ OpsIdle /\ BackendIdle /\ ThreadsIdle /\ LayersIdle

SdOthersUnchanged ==
  UNCHANGED <<backendVars, threadVars, layerVars, opVars, repVars, arrVars,
              blockVars, splitVars, lmVars>>

\* ShapeDtype(shape, dtype)
SdConstruct(shape, dtype) ==
  /\ sd_made = NoOpCall
  /\ sd_obj' = ShapeDtype_init(shape, dtype)
  /\ sd_made' = [op |-> "ShapeDtype", shape |-> shape, dtype |-> dtype,
                 given |-> TRUE]
  /\ UNCHANGED sd_last
  /\ SdOthersUnchanged

\* ShapeDtype(shape)
SdConstructDefault(shape) ==
  /\ sd_made = NoOpCall
  /\ sd_obj' = ShapeDtype_init(shape, ShapeDtype_default_dtype)
  /\ sd_made' = [op |-> "ShapeDtype", shape |-> shape, dtype |-> "<None>",
                 given |-> FALSE]
  /\ UNCHANGED sd_last
  /\ SdOthersUnchanged

\* shape_dtype_for(obj), obj an array of the given shape and dtype.
SdShapeDtypeFor(shape, dtype) ==
  /\ sd_made = NoOpCall
  /\ sd_obj' = shape_dtype_for([shape |-> shape, dtype |-> dtype])
  /\ sd_made' = [op |-> "shape_dtype_for", shape |-> shape, dtype |-> dtype,
                 given |-> TRUE]
  /\ UNCHANGED sd_last
  /\ SdOthersUnchanged

\* sd.<name> = value
SdSetAttr(name, value) ==
  /\ sd_made # NoOpCall
  /\ sd_obj' = ShapeDtype_setattr(sd_obj, name, value)
  /\ sd_last' = [op |-> "setattr", name |-> name, value |-> value,
                 raised |-> IF name \in ShapeDtype_slots THEN "none"
                                                        ELSE "AttributeError"]
  /\ UNCHANGED sd_made
  /\ SdOthersUnchanged

\* sd.__init__(shape, dtype) on the existing instance.
SdReinit(shape, dtype) ==
  /\ sd_made # NoOpCall
  /\ sd_obj' = ShapeDtype_init(shape, dtype)
  /\ sd_last' = [op |-> "__init__", shape |-> shape, dtype |-> dtype]
  /\ UNCHANGED sd_made
  /\ SdOthersUnchanged

\* repr(sd)
SdRepr ==
  /\ sd_made # NoOpCall
  /\ sd_last' = [op |-> "repr", ret |-> ShapeDtype_repr(sd_obj)]
  /\ UNCHANGED <<sd_obj, sd_made>>
  /\ SdOthersUnchanged

NextShape ==
  \/ \E shape \in SdShapes, dtype \in Dtypes : SdConstruct(shape, dtype)
  \/ \E shape \in SdShapes : SdConstructDefault(shape)
  \/ \E shape \in SdShapes, dtype \in Dtypes : SdShapeDtypeFor(shape, dtype)
  \/ \E name \in SdNames : \E value \in SdValues(name) : SdSetAttr(name, value)
  \/ \E shape \in SdShapes, dtype \in Dtypes : SdReinit(shape, dtype)
  \/ SdRepr

SpecShape == InitShape /\ [][NextShape]_vars

(***************************************************************************)
(* tf_numpy array creation: array, asarray and asanyarray, as exercised by *)
(* tests/array_creation_test.py.  The source object is the ndarray with    *)
(* identity SourceId, backed by the tensor with identity SourceId; a       *)
(* result carries the identity of its ndarray and of its backing tensor,   *)
(* SourceId when it is the source's and FreshId when it was newly made.     *)
(***************************************************************************)
MaxRank == 2

SourceId == 1

FreshId == 2

ArrDtypes == {"float64", "int64", "float32"}

\* The requested dtype, "<None>" when none is given.
ArrRequests == ArrDtypes \cup {"<None>"}

\* The value passed: the ndarray itself or its backing tensor (.data).
ArrKinds == {"ndarray", "tensor"}

\* tf.cast: a tensor that already has the dtype is returned as it is.
cast(t, dtype) ==
  IF dtype = t.dtype THEN t ELSE [t EXCEPT !.id = FreshId, !.dtype = dtype]

\* tf.identity
identity(t) == [t EXCEPT !.id = FreshId]

\* Prepending axes until the rank is ndmin.
expand_to(t, ndmin) ==
  IF ndmin > t.rank THEN [t EXCEPT !.id = FreshId, !.rank = ndmin] ELSE t

\* arrays.tensor_to_ndarray: a new ndarray around the tensor.
tensor_to_ndarray(t) ==
  [status |-> "ok", ndarray |-> FreshId, data |-> t.id, dtype |-> t.dtype,
   rank |-> t.rank]

\* A plausible slip: the cast always makes a new tensor.
array_CastAlways(x, dtype, copy, ndmin) ==
  LET t0 == [id |-> x.data, dtype |-> x.dtype, rank |-> x.rank]
      t1 == IF copy THEN identity(t0) ELSE t0
      t2 == IF dtype = "<None>" THEN t1
            ELSE [t1 EXCEPT !.id = FreshId, !.dtype = dtype]
  IN  tensor_to_ndarray(expand_to(t2, ndmin))

\* array_creation.array(val, dtype=None, copy=True, ndmin=0), val being an
\* ndarray or a tensor.
array(x, dtype, copy, ndmin) ==
  LET t0 == [id |-> x.data, dtype |-> x.dtype, rank |-> x.rank]
      t1 == IF copy THEN identity(t0) ELSE t0
      t2 == IF dtype = "<None>" THEN t1 ELSE cast(t1, dtype)
  IN  tensor_to_ndarray(expand_to(t2, ndmin))

\* array_creation.asarray(a, dtype=None)
asarray(x, dtype) ==
  IF x.kind = "ndarray" /\ (dtype = "<None>" \/ dtype = x.dtype)
    THEN [status |-> "ok", ndarray |-> x.ndarray, data |-> x.data,
          dtype |-> x.dtype, rank |-> x.rank]
    ELSE array(x, dtype, FALSE, 0)

\* array_creation.asanyarray(a, dtype=None)
asanyarray(x, dtype) == asarray(x, dtype)

\* The values a call is made on: zeros_list of the test, or its .data, with
\* any dtype and rank.
ArrSources ==
  [kind : ArrKinds, ndarray : {SourceId}, data : {SourceId},
   dtype : ArrDtypes, rank : 0..MaxRank]

InitArrays ==
  /\ ArraysIdle
  /\ RepIdle /\ ShapeDtypeIdle /\ BlockIdle /\ SplitIdle /\ ReformerIdle
  /\ OpsIdle /\ BackendIdle /\ ThreadsIdle /\ LayersIdle

ArrOthersUnchanged ==
  UNCHANGED <<backendVars, threadVars, layerVars, opVars, repVars, sdVars,
              blockVars, splitVars, lmVars>>

ArrayCall(x, dtype, copy, ndmin) ==
  /\ arr_call = NoOpCall
  /\ arr_call' = [op |-> "array", x |-> x, dtype |-> dtype, copy |-> copy,
                  ndmin |-> ndmin]
  /\ arr_ret' = array(x, dtype, copy, ndmin)
  /\ ArrOthersUnchanged

AsArrayCall(x, dtype) ==
  /\ arr_call = NoOpCall
  /\ arr_call' = [op |-> "asarray", x |-> x, dtype |-> dtype]
  /\ arr_ret' = asarray(x, dtype)
  /\ ArrOthersUnchanged

AsAnyArrayCall(x, dtype) ==
  /\ arr_call = NoOpCall
  /\ arr_call' = [op |-> "asanyarray", x |-> x, dtype |-> dtype]
  /\ arr_ret' = asanyarray(x, dtype)
  /\ ArrOthersUnchanged

NextArrays ==
  \/ \E x \in ArrSources, dtype \in ArrRequests, copy \in BOOLEAN,
        ndmin \in 0..(MaxRank + 1) : ArrayCall(x, dtype, copy, ndmin)
  \/ \E x \in ArrSources, dtype \in ArrRequests : AsArrayCall(x, dtype)
  \/ \E x \in ArrSources, dtype \in ArrRequests : AsAnyArrayCall(x, dtype)

SpecArrays == InitArrays /\ [][NextArrays]_vars

(***************************************************************************)
(* reformer.py: DecoderBlock, the list of four reversible layers that      *)
(* ReformerLM runs inside a tl.ReversibleSerial.  Here one block is run as *)
(* a ReversibleSerial of its own.                                          *)
(***************************************************************************)
\* return [ReversibleAttentionHalfResidual(...), tl.ReversibleSwap(),
\*         ReversibleHalfResidual(feed_forward), tl.ReversibleSwap()]
DecoderBlock(att, ff) ==
  <<[class |-> "ReversibleAttentionHalfResidual", c |-> att],
    [class |-> "ReversibleSwap", c |-> att],
    [class |-> "ReversibleHalfResidual", c |-> ff],
    [class |-> "ReversibleSwap", c |-> ff]>>

\* tl.ReversibleSwap: forward and reverse both exchange the two streams.
ReversibleSwap(x) == <<x[2], x[1]>>

\* layer(x, params=p, state=s, rng=r) for a layer of the block.
BlockLayer_forward(l, x, p, s, r) ==
  IF l.class = "ReversibleSwap" THEN Returned(ReversibleSwap(x))
  ELSE Serial_forward(l.c, x, p, s, r)

\* layer.reverse(y, p, s, rng=r) for a layer of the block.
BlockLayer_reverse(l, y, p, s, r) ==
  CASE l.class = "ReversibleSwap" -> Returned(ReversibleSwap(y))
    [] l.class = "ReversibleHalfResidual" ->
         HalfResidual_reverse(l.c, y, p, s, r)
    [] l.class = "ReversibleAttentionHalfResidual" ->
         AttentionHalfResidual_reverse(l.c, y, p, s, r)

\* layer.reverse_and_grad(y, ct, p, s, rng=r) for a layer of the block.
BlockLayer_reverse_and_grad(l, y, cts, p, s, r) ==
  CASE l.class = "ReversibleSwap" ->
         [status |-> "ok", out |-> ReversibleSwap(y),
          x_ct |-> ReversibleSwap(cts), params_ct |-> p]
    [] l.class = "ReversibleHalfResidual" ->
         HalfResidual_reverse_and_grad(l.c, y, cts, p, s, r)
    [] l.class = "ReversibleAttentionHalfResidual" ->
         AttentionHalfResidual_reverse_and_grad(l.c, y, cts, p, s, r)

\* tl.Serial.forward over the first n layers; an exception ends the pass.
RECURSIVE ReversibleSerial_run(_, _, _, _, _, _)
ReversibleSerial_run(layers, x, ps, ss, rngs, n) ==
  IF n = 0 THEN Returned(x)
  ELSE LET prev == ReversibleSerial_run(layers, x, ps, ss, rngs, n - 1)
       IN  IF prev.status # "ok" THEN prev
           ELSE BlockLayer_forward(layers[n], prev.out, ps[n], ss[n], rngs[n])

ReversibleSerial_forward(layers, x, ps, ss, r) ==
  ReversibleSerial_run(layers, x, ps, ss,
                       pop_rng_and_split(r, Len(layers)), Len(layers))

\* The layers from the last down to the n-th undone in that order.
RECURSIVE ReversibleSerial_unrun(_, _, _, _, _, _)
ReversibleSerial_unrun(layers, y, ps, ss, rngs, n) ==
  IF n > Len(layers) THEN Returned(y)
  ELSE LET prev == ReversibleSerial_unrun(layers, y, ps, ss, rngs, n + 1)
       IN  IF prev.status # "ok" THEN prev
           ELSE BlockLayer_reverse(layers[n], prev.out, ps[n], ss[n], rngs[n])

\* tl.ReversibleSerial.reverse
ReversibleSerial_reverse(layers, y, ps, ss, r) ==
  ReversibleSerial_unrun(layers, y, ps, ss, split_rngs(r, Len(layers)), 1)

\* The same with reverse_and_grad, the cotangent handed down the layers.
RECURSIVE ReversibleSerial_unrun_and_grad(_, _, _, _, _, _, _)
ReversibleSerial_unrun_and_grad(layers, y, cts, ps, ss, rngs, n) ==
  IF n > Len(layers)
    THEN [status |-> "ok", out |-> y, x_ct |-> cts, params_ct |-> <<>>]
  ELSE LET prev == ReversibleSerial_unrun_and_grad(layers, y, cts, ps, ss,
                                                   rngs, n + 1)
           here == BlockLayer_reverse_and_grad(layers[n], prev.out, prev.x_ct,
                                               ps[n], ss[n], rngs[n])
       IN  IF prev.status # "ok" THEN prev
           ELSE IF here.status # "ok" THEN here
           ELSE [here EXCEPT !.params_ct = <<here.params_ct>> \o prev.params_ct]

\* tl.ReversibleSerial.reverse_and_grad
ReversibleSerial_reverse_and_grad(layers, y, cts, ps, ss, r) ==
  ReversibleSerial_unrun_and_grad(layers, y, cts, ps, ss,
                                  split_rngs(r, Len(layers)), 1)

AttentionConfigs == {c \in Configs : c.layer = "attn"}

FeedForwardConfigs == {c \in Configs : c.layer = "half" /\ c.res # "chain"}

\* The parameters and states of the four layers of a block.
BlockParams(w_att, w_ff) ==
  <<AttentionParams(w_att, EmptyTriple, EmptyPair), EmptyParams,
    HalfParams(w_ff, EmptyPair), EmptyParams>>

BlockState(att, ff, st) == <<StateList(att, st), 0, StateList(ff, st), 0>>

BlockCalls ==
  [att : AttentionConfigs, ff : FeedForwardConfigs, x : Tuples(Vals, 2),
   w_att : Weights, w_ff : Weights, st : States, rng : Seeds]

InitBlock ==
  /\ BlockIdle
  /\ RepIdle /\ ShapeDtypeIdle /\ ArraysIdle /\ SplitIdle /\ ReformerIdle
  /\ OpsIdle /\ BackendIdle /\ ThreadsIdle /\ LayersIdle

BlockOthersUnchanged ==
  UNCHANGED <<backendVars, threadVars, layerVars, opVars, repVars, sdVars,
              arrVars, splitVars, lmVars>>

\* block = tl.ReversibleSerial(DecoderBlock(...)); y = block(x, ...)
BlockForward(call) ==
  /\ blk_call = NoOpCall
  /\ blk_call' = call
  /\ blk_fwd' = ReversibleSerial_forward(
                  DecoderBlock(call.att, call.ff), call.x,
                  BlockParams(call.w_att, call.w_ff),
                  BlockState(call.att, call.ff, call.st), call.rng)
  /\ UNCHANGED blk_rev
  /\ BlockOthersUnchanged

\* block.reverse(y, params, state, rng=rng)
BlockReverse ==
  /\ blk_call # NoOpCall
  /\ blk_fwd.status = "ok"
  /\ blk_rev = NoOpResult
  /\ blk_rev' = ReversibleSerial_reverse(
                  DecoderBlock(blk_call.att, blk_call.ff), blk_fwd.out,
                  BlockParams(blk_call.w_att, blk_call.w_ff),
                  BlockState(blk_call.att, blk_call.ff, blk_call.st),
                  blk_call.rng)
  /\ UNCHANGED <<blk_call, blk_fwd>>
  /\ BlockOthersUnchanged

\* block.reverse_and_grad(y, ct, params, state, rng=rng)
BlockReverseAndGrad(cts) ==
  /\ blk_call # NoOpCall
  /\ blk_fwd.status = "ok"
  /\ blk_rev = NoOpResult
  /\ blk_rev' = ReversibleSerial_reverse_and_grad(
                  DecoderBlock(blk_call.att, blk_call.ff), blk_fwd.out, cts,
                  BlockParams(blk_call.w_att, blk_call.w_ff),
                  BlockState(blk_call.att, blk_call.ff, blk_call.st),
                  blk_call.rng)
  /\ UNCHANGED <<blk_call, blk_fwd>>
  /\ BlockOthersUnchanged

NextBlock ==
  \/ \E call \in BlockCalls : BlockForward(call)
  \/ BlockReverse
  \/ \E c1 \in Cts, c2 \in Cts : BlockReverseAndGrad(<<c1, c2>>)

SpecBlock == InitBlock /\ [][NextBlock]_vars

(***************************************************************************)
(* reformer.py: SplitForOutput, on arrays of rank 2.  An axis is given as  *)
(* in the code, -2 (rows) or -1 (columns).                                 *)
(***************************************************************************)
\* The 1-based position in the shape of a negative axis.
AxisOf(x, axis) == Len(x.shape) + axis + 1

\* x[r, c], from 1.
Elem(x, r, c) == x.data[(r - 1) * x.shape[2] + c]

\* The array of the given shape whose element (r, c) is f[<<r, c>>].
Matrix(rows, cols, f) ==
  [shape |-> <<rows, cols>>,
   data |-> [k \in 1..(rows * cols) |->
               f[<<((k - 1) \div cols) + 1, ((k - 1) % cols) + 1>>]]]

\* numpy.split raises ValueError unless the axis divides into equal parts.
CanSplit(x, n, axis) == x.shape[AxisOf(x, axis)] % n = 0

\* backend.numpy.split(x, n, axis): the n equal sections, in order.
numpy_split(x, n, axis) ==
  LET rows == x.shape[1]
      cols == x.shape[2]
  IN  IF AxisOf(x, axis) = 1
        THEN [i \in 1..n |->
                Matrix(rows \div n, cols,
                       [p \in (1..(rows \div n)) \X (1..cols) |->
                          Elem(x, (i - 1) * (rows \div n) + p[1], p[2])])]
        ELSE [i \in 1..n |->
                Matrix(rows, cols \div n,
                       [p \in (1..rows) \X (1..(cols \div n)) |->
                          Elem(x, p[1], (i - 1) * (cols \div n) + p[2])])]

\* backend.numpy.concatenate((a, b), axis)
concatenate_pair(a, b, axis) ==
  IF AxisOf(a, axis) = 1
    THEN [shape |-> <<a.shape[1] + b.shape[1], a.shape[2]>>,
          data |-> a.data \o b.data]
    ELSE Matrix(a.shape[1], a.shape[2] + b.shape[2],
                [p \in (1..a.shape[1]) \X (1..(a.shape[2] + b.shape[2])) |->
                   IF p[2] <= a.shape[2] THEN Elem(a, p[1], p[2])
                   ELSE Elem(b, p[1], p[2] - a.shape[2])])

\* backend.numpy.concatenate(xs, axis)
RECURSIVE numpy_concatenate(_, _)
numpy_concatenate(xs, axis) ==
  IF Len(xs) = 1 THEN xs[1]
  ELSE concatenate_pair(numpy_concatenate(SubSeq(xs, 1, Len(xs) - 1), axis),
                        xs[Len(xs)], axis)

SplitRaised(kind) == [status |-> kind, out |-> <<>>]

\* A plausible slip: the two halves are concatenated in the other order.
SplitForOutput_forward_Swapped(layer, xs) ==
  LET x1 == xs[1]
      x2 == xs[2]
      x1_split == numpy_split(x1, layer.n_sections, layer.axis)
      x2_split == numpy_split(x2, layer.n_sections, layer.axis)
  IN  IF ~CanSplit(x1, layer.n_sections, layer.axis)
           \/ ~CanSplit(x2, layer.n_sections, layer.axis)
        THEN SplitRaised("ValueError")
        ELSE [status |-> "ok",
              out |-> [i \in 1..layer.n_sections |->
                         numpy_concatenate(<<x2_split[i], x1_split[i]>>, -1)]]

\* SplitForOutput.forward
SplitForOutput_forward(layer, xs) ==
  LET x1 == xs[1]
      x2 == xs[2]
      x1_split == numpy_split(x1, layer.n_sections, layer.axis)
      x2_split == numpy_split(x2, layer.n_sections, layer.axis)
  IN  IF ~CanSplit(x1, layer.n_sections, layer.axis)
           \/ ~CanSplit(x2, layer.n_sections, layer.axis)
        THEN SplitRaised("ValueError")
        ELSE [status |-> "ok",
              out |-> [i \in 1..layer.n_sections |->
                         numpy_concatenate(<<x1_split[i], x2_split[i]>>, -1)]]

\* SplitForOutput.reverse
SplitForOutput_reverse(layer, output) ==
  LET x1_split == [i \in 1..Len(output) |-> numpy_split(output[i], 2, -1)[1]]
      x2_split == [i \in 1..Len(output) |-> numpy_split(output[i], 2, -1)[2]]
  IN  IF \E i \in 1..Len(output) : ~CanSplit(output[i], 2, -1)
        THEN SplitRaised("ValueError")
        ELSE [status |-> "ok",
              out |-> <<numpy_concatenate(x1_split, layer.axis),
                        numpy_concatenate(x2_split, layer.axis)>>]

\* A plausible slip: the cotangent is returned as it came, not rearranged.
SplitForOutput_reverse_and_grad_SameCt(layer, output, cts) ==
  LET x == SplitForOutput_reverse(layer, output)
  IN  IF x.status # "ok" THEN [status |-> x.status, out |-> <<>>,
                               x_ct |-> <<>>, params_ct |-> <<>>]
      ELSE [status |-> "ok", out |-> x.out, x_ct |-> cts,
            params_ct |-> EmptyParams]

\* SplitForOutput.reverse_and_grad
SplitForOutput_reverse_and_grad(layer, output, cts) ==
  LET x == SplitForOutput_reverse(layer, output)
      x_ct == SplitForOutput_reverse(layer, cts)
  IN  IF x.status # "ok" \/ x_ct.status # "ok"
        THEN [status |-> IF x.status # "ok" THEN x.status ELSE x_ct.status,
              out |-> <<>>, x_ct |-> <<>>, params_ct |-> <<>>]
        ELSE [status |-> "ok", out |-> x.out, x_ct |-> x_ct.out,
              params_ct |-> EmptyParams]

\* SplitForOutput(n_sections, axis)
SplitLayers == [n_sections : 1..MaxSections, axis : {-2, -1}]

\* x2 has the shape of x1 and other elements.
SecondStream(x1) == [x1 EXCEPT !.data = [k \in DOMAIN x1.data |-> 100 + x1.data[k]]]

\* A cotangent of the outputs: one value per output element, all different.
CotangentOf(output) ==
  [i \in 1..Len(output) |->
     [output[i] EXCEPT !.data = [k \in DOMAIN output[i].data |-> 1000 * i + k]]]

InitSplit ==
  /\ SplitIdle
  /\ RepIdle /\ ShapeDtypeIdle /\ ArraysIdle /\ BlockIdle /\ ReformerIdle
  /\ OpsIdle /\ BackendIdle /\ ThreadsIdle /\ LayersIdle

SplitOthersUnchanged ==
  UNCHANGED <<backendVars, threadVars, layerVars, opVars, repVars, sdVars,
              arrVars, blockVars, lmVars>>

\* layer = SplitForOutput(n_sections, axis); ys = layer((x1, x2))
SplitForward(layer, x1) ==
  /\ split_call = NoOpCall
  /\ split_call' = [op |-> "SplitForOutput", layer |-> layer,
                    inputs |-> <<x1, SecondStream(x1)>>]
  /\ split_fwd' = SplitForOutput_forward(layer, <<x1, SecondStream(x1)>>)
  /\ UNCHANGED <<split_rev, split_rag>>
  /\ SplitOthersUnchanged

\* layer.reverse(ys)
SplitReverse ==
  /\ split_call # NoOpCall
  /\ split_fwd.status = "ok"
  /\ split_rev = NoOpResult
  /\ split_rev' = SplitForOutput_reverse(split_call.layer, split_fwd.out)
  /\ UNCHANGED <<split_call, split_fwd, split_rag>>
  /\ SplitOthersUnchanged

\* layer.reverse_and_grad(ys, ct)
SplitReverseAndGrad ==
  /\ split_call # NoOpCall
  /\ split_fwd.status = "ok"
  /\ split_rag = NoOpResult
  /\ split_rag' = SplitForOutput_reverse_and_grad(
                    split_call.layer, split_fwd.out, CotangentOf(split_fwd.out))
  /\ UNCHANGED <<split_call, split_fwd, split_rev>>
  /\ SplitOthersUnchanged

NextSplit ==
  \/ \E layer \in SplitLayers, x1 \in Matrices : SplitForward(layer, x1)
  \/ SplitReverse
  \/ SplitReverseAndGrad

SpecSplit == InitSplit /\ [][NextSplit]_vars

(***************************************************************************)
(* reformer.py: the sublayer calls each method of the half-residual layers *)
(* makes, in the order it makes them: which sublayer, which entry of       *)
(* params and state (0 when none is passed) and which seed.                *)
(***************************************************************************)
SublayerCall(tag, i, r) == [layer |-> tag, params |-> i, state |-> i, rng |-> r]

\* tl.Serial.forward: the i-th layer with the i-th params, state and seed.
Serial_forward_calls(c, r) ==
  [i \in 1..n_layers(c.layer) |->
     SublayerCall(sublayers(c.layer)[i], i,
                  pop_rng_and_split(r, n_layers(c.layer))[i])]

\* ReversibleHalfResidual.reverse: layer(reconstructed_x, params=p, state=s,
\* rng=rng) over zip(self.reverse_layers, params, state, rngs).
HalfResidual_reverse_calls(c, r) ==
  [i \in 1..Len(reverse_layers(c.layer)) |->
     SublayerCall(reverse_layers(c.layer)[i], i,
                  split_rngs(r, n_layers(c.layer))[i])]

\* ReversibleHalfResidual.reverse_and_grad: self.compute_residual with
\* params[0], state[0], rngs[0], then self.subtract_top with params[-1],
\* state[-1], rngs[-1].
HalfResidual_reverse_and_grad_calls(c, r) ==
  LET n == n_layers(c.layer)
      rngs == split_rngs(r, n)
  IN  <<SublayerCall("compute_residual", 1, rngs[1]),
        SublayerCall("subtract_top", n, rngs[n])>>

\* ReversibleAttentionHalfResidual.reverse: layer.reverse(...) over the same
\* zip; the lookup of reverse fails on the first entry, before any sublayer
\* is run.
AttentionHalfResidual_reverse_calls(c, r) ==
  IF ~HasReverse(SublayerClass(reverse_layers(c.layer)[1])) THEN <<>>
  ELSE [i \in 1..Len(reverse_layers(c.layer)) |->
          SublayerCall(reverse_layers(c.layer)[i], i,
                       split_rngs(r, n_layers(c.layer))[i])]

\* ReversibleAttentionHalfResidual.reverse_and_grad: pre_attention,
\* post_attention (for its input cotangent), attention.forward_and_backward
\* with rng=rngs[1] and no params or state, post_attention again (for its
\* parameter cotangent), subtract_top.
AttentionHalfResidual_reverse_and_grad_calls(c, r) ==
  LET n == n_layers(c.layer)
      rngs == split_rngs(r, n)
  IN  <<SublayerCall("pre_attention", 1, rngs[1]),
        SublayerCall("post_attention", 3, rngs[3]),
        SublayerCall("attention", 0, rngs[2]),
        SublayerCall("post_attention", 3, rngs[3]),
        SublayerCall("subtract_top", n, rngs[n])>>

\* The seed the attention receives inside its wrapper in the forward pass:
\* the wrapper is a tl.Parallel of three branches.
ApplyAttentionWrapper_forward_seed(r) == pop_rng_and_split(r, 3)[1]

\* if rng is not None: rng = backend.random.split(rng, self._n_layers)[0]
ApplyAttentionWrapper_forward_and_backward_seed(r) ==
  IF r # NoneRng THEN random_split(r, 3)[1] ELSE r

(***************************************************************************)
(* reformer.py: ReformerLM, as the topology it returns.  A layer is a      *)
(* record of its class and the arguments that fix its arity; a decoder     *)
(* block stands for the list of four layers DecoderBlock returns, which    *)
(* tl.ReversibleSerial flattens.                                           *)
(***************************************************************************)
MaxChunks == 3

MaxLayers == 4

\* attention_type: one class, or a tuple or list of classes.
AttentionTypes ==
  {[is_list |-> FALSE, classes |-> <<"DotProductCausalAttention">>],
   [is_list |-> FALSE, classes |-> <<"LSHCausalAttention">>],
   [is_list |-> TRUE, classes |-> <<"LSHCausalAttention">>],
   [is_list |-> TRUE,
    classes |-> <<"DotProductCausalAttention", "LSHCausalAttention">>],
   [is_list |-> TRUE,
    classes |-> <<"LSHCausalAttention", "DotProductCausalAttention",
                  "DotProductCausalAttention">>]}

\* axial_pos_shape and d_axial_pos_embs: unset, set with embeddings, set
\* without.
AxialChoices == {"unset", "with_embs", "without_embs"}

LmRaised(kind) ==
  [status |-> kind, concatenate_input_chunks |-> <<>>, reversible |-> <<>>,
   output |-> <<>>]

\* decoder_blocks after the loop over range(n_layers).
decoder_blocks(n_layers_arg, attention_type, share_qk) ==
  [layer_idx \in 1..n_layers_arg |->
     LET layer_attention_type ==
           attention_type.classes[((layer_idx - 1)
                                     % Len(attention_type.classes)) + 1]
     IN  [class |-> "DecoderBlock",
          attention_type |-> layer_attention_type,
          share_qk |-> (share_qk
                          \/ layer_attention_type = "LSHCausalAttention")]]

\* A plausible slip: n_chunks = 0 is passed on as it is.
ReformerLM_RawChunks(n_chunks, n_layers_arg, attention_type, share_qk, axial) ==
  IF axial = "without_embs" THEN LmRaised("AssertionError")
  ELSE IF attention_type.is_list
            /\ n_layers_arg % Len(attention_type.classes) # 0
    THEN LmRaised("AssertionError")
  ELSE [status |-> "ok",
        concatenate_input_chunks |->
          IF n_chunks = 0 THEN <<>>
          ELSE <<[class |-> "Concatenate", n_items |-> n_chunks]>>,
        reversible |->
          decoder_blocks(n_layers_arg, attention_type, share_qk)
            \o <<[class |-> "SplitForOutput", n_sections |-> n_chunks,
                  axis |-> -2]>>,
        output |-> <<[class |-> "Map", n_sections |-> n_chunks]>>]

\* def ReformerLM(vocab_size, ..., n_layers, ..., n_chunks, ...,
\*                attention_type, share_qk, axial_pos_shape,
\*                d_axial_pos_embs, mode)
ReformerLM(n_chunks, n_layers_arg, attention_type, share_qk, axial) ==
  LET chunks == IF n_chunks = 0 THEN 1 ELSE n_chunks
  IN  IF axial = "without_embs" THEN LmRaised("AssertionError")
      ELSE IF attention_type.is_list
                /\ n_layers_arg % Len(attention_type.classes) # 0
        THEN LmRaised("AssertionError")
      ELSE [status |-> "ok",
            concatenate_input_chunks |->
              IF n_chunks = 0 THEN <<>>
              ELSE <<[class |-> "Concatenate", n_items |-> chunks]>>,
            reversible |->
              decoder_blocks(n_layers_arg, attention_type, share_qk)
                \o <<[class |-> "SplitForOutput", n_sections |-> chunks,
                      axis |-> -2]>>,
            output |-> <<[class |-> "Map", n_sections |-> chunks]>>]

InitReformer ==
  /\ ReformerIdle
  /\ RepIdle /\ ShapeDtypeIdle /\ ArraysIdle /\ BlockIdle /\ SplitIdle
  /\ OpsIdle /\ BackendIdle /\ ThreadsIdle /\ LayersIdle

\* model = ReformerLM(vocab_size, n_layers=..., n_chunks=..., ...)
ReformerCall(n_chunks, n_layers_arg, attention_type, share_qk, axial) ==
  /\ lm_call = NoOpCall
  /\ lm_call' = [op |-> "ReformerLM", n_chunks |-> n_chunks,
                 n_layers |-> n_layers_arg, attention_type |-> attention_type,
                 share_qk |-> share_qk, axial |-> axial]
  /\ lm_ret' = ReformerLM(n_chunks, n_layers_arg, attention_type, share_qk,
                          axial)
  /\ UNCHANGED <<backendVars, threadVars, layerVars, opVars, repVars, sdVars,
                 arrVars, blockVars, splitVars>>

NextReformer ==
  \E n_chunks \in 0..MaxChunks, n_layers_arg \in 0..MaxLayers,
     attention_type \in AttentionTypes, share_qk \in BOOLEAN,
     axial \in AxialChoices :
    ReformerCall(n_chunks, n_layers_arg, attention_type, share_qk, axial)

SpecReformer == InitReformer /\ [][NextReformer]_vars

(***************************************************************************)
(* Properties of the backend override.                                     *)
(***************************************************************************)
InnermostScope == frames[Len(frames)]

ProviderOf(name) == IF name = "numpy" THEN NUMPY_BACKEND ELSE JAX_BACKEND

\* C1: inside a use_backend(name) scope with a non-empty name, every call of
\* backend(), whatever name is configured or passed, returns the numpy table
\* iff name = 'numpy' and the jax table otherwise, and get_name() reports
\* that table's name.
C1_OverrideDecidesProvider ==
  (frames # <<>> /\ Truthy(InnermostScope.name)) =>
    /\ \A arg \in Names : backend(arg) = ProviderOf(InnermostScope.name)
    /\ get_name = ProviderOf(InnermostScope.name).name
    /\ last_call.made =>
         /\ last_call.table = ProviderOf(InnermostScope.name)
         /\ last_call.name = ProviderOf(InnermostScope.name).name

\* A call made inside use_backend('numpy') with 'jax' both configured and
\* passed has returned the numpy table.
C1_Witness ==
  /\ frames # <<>>
  /\ InnermostScope.name = "numpy"
  /\ gin_name = "jax"
  /\ last_call.made
  /\ last_call.arg = "jax"
  /\ last_call.table = NUMPY_BACKEND
  /\ last_call.name = "numpy"

\* C2: for properly nested use_backend scopes of any depth, every scope exit,
\* normal or by an exception of the body, leaves override_backend_name at the
\* value it had immediately before that scope was entered (the original
\* value once the outermost scope has exited), and an exception raised by
\* the body is still propagating after the exit.
C2_ExitRestoresEntryValue ==
  /\ [](frames = <<>> => override_backend_name = NoneName)
  /\ [][Len(frames') < Len(frames) =>
          /\ override_backend_name' = InnermostScope.at_entry
          /\ exc' = exc]_vars

\* An inner scope was left by an exception: the exception is still
\* propagating and the override is back at the enclosing scope's name.
C2_Witness ==
  /\ last_exit.happened
  /\ last_exit.depth = 2
  /\ last_exit.raised
  /\ exc
  /\ Len(frames) = 1
  /\ Truthy(frames[1].name)
  /\ override_backend_name = frames[1].name
  /\ last_exit.at_entry = frames[1].name

(***************************************************************************)
(* Properties of two scopes run by two threads.                            *)
(***************************************************************************)
BothExited == tpc[1] = "done" /\ tpc[2] = "done"

\* The scope entered first exits first while the other scope is still open.
Crossed ==
  /\ Len(order) = 4
  /\ order[2][2] = "enter"
  /\ order[3][1] = order[1][1]

\* C3 (as stated): for every interleaving of the enter and exit steps of two
\* use_backend scopes, once both have exited override_backend_name equals
\* its value before the first enter.
C3_NoOverrideLeftBehind ==
  BothExited => override_backend_name = NoneName

\* C3 (amended): once both scopes have exited, override_backend_name equals
\* its value before the first enter when the scopes did not overlap or
\* exited in reverse order of entry; when the scope entered first exits
\* first while the other is open, the override is left at the name the
\* first-entered scope set.
C3_RestoredUnlessCrossed ==
  BothExited =>
    IF Crossed THEN override_backend_name = tname[order[1][1]]
    ELSE override_backend_name = NoneName

\* Two overlapping scopes with non-empty names exited in reverse order of
\* entry and nothing is left behind.
C3_Witness ==
  /\ BothExited
  /\ order[2][2] = "enter"
  /\ ~Crossed
  /\ Truthy(tname[1])
  /\ Truthy(tname[2])
  /\ override_backend_name = NoneName

(***************************************************************************)
(* Properties of the half-residual layers.                                 *)
(***************************************************************************)
IsHalf == cfg.layer = "half"

IsAttention == cfg.layer = "attn"

\* The residual f of a ReversibleHalfResidual at x, as forward computes it.
HalfResidualAt(x) ==
  Residual(cfg, x, tree_leaves(params[1]), state[1],
           InnerSeed(pop_rng_and_split(rng, 2)[1]))

\* Its exact derivative at x, applied to the cotangent c.
HalfResidualVjpAt(x, c) ==
  Residual_vjp(cfg, x, tree_leaves(params[1]), state[1],
               InnerSeed(pop_rng_and_split(rng, 2)[1]), c)

\* z = post_attention(attention(pre_attention(x))), with the weights, state
\* and sub-seeds the forward pass of ReversibleAttentionHalfResidual uses.
AttentionResidualAt(x) ==
  LET rngs == pop_rng_and_split(rng, 4)
      qkv == PreAttention(x, tree_leaves(params[1])[1], state[1],
                          InnerSeed(rngs[1]))
      o == Attention(cfg.attn, qkv, pop_rng_and_split(rngs[2], 3)[1])
  IN  PostAttention(cfg.post, o, tree_leaves(params[3])[1],
                    pop_rng_and_split(rngs[3], 3)[1])

\* C4: for ReversibleHalfResidual, reverse applied to the output of forward
\* with the same params, state and rng returns exactly the inputs (x1, x2);
\* reverse is given the outputs, params, state and rng only.
C4_HalfReverseInvertsForward ==
  (IsHalf /\ rev.status # "none") =>
    /\ rev.status = "ok"
    /\ rev.out = inputs

\* A stochastic residual with a non-zero value was undone exactly.
C4_Witness ==
  /\ IsHalf
  /\ cfg.res = "dropout"
  /\ rng # NoneRng
  /\ rev.status = "ok"
  /\ rev.out = inputs
  /\ fwd.out[1] # inputs[1]

\* C5: for ReversibleAttentionHalfResidual, reverse applied to the output of
\* forward with the same params, state and rng returns exactly (x1, x2), by
\* re-running pre_attention, attention and post_attention forward on the
\* outputs and subtracting the residual from the top stream.
C5_AttentionReverseInvertsForward ==
  (IsAttention /\ rev.status # "none") =>
    /\ rev.status = "ok"
    /\ rev.out = inputs

\* C6: for ReversibleHalfResidual, reverse_and_grad returns the inputs that
\* reverse reconstructs, the input cotangent (c1, c2 + J_f(x2)^T c1) and the
\* residual-parameter cotangent (d f(x2) / d params)^T c1.
C6_HalfReverseAndGradIsTwoPass ==
  (IsHalf /\ rag.status = "ok") =>
    LET x == HalfResidual_reverse(cfg, fwd.out, params, state, rng).out
        back == HalfResidualVjpAt(x[2], ct[1])
    IN  /\ rag.out = x
        /\ rag.out = rev.out
        /\ rag.x_ct = <<ct[1], ct[2] + back.x_ct>>
        /\ tree_leaves(rag.params_ct[1]) = back.p_ct

\* A non-linear residual whose Jacobian term is not zero was differentiated.
C6_Witness ==
  /\ IsHalf
  /\ cfg.res = "square"
  /\ rag.status = "ok"
  /\ inputs[2] = 2
  /\ ct = <<1, 2>>
  /\ rag.x_ct[2] > ct[2]
  /\ rag.out = inputs

\* The ReversibleHalfResidual([pre_attention, attention, post_attention])
\* with the same sublayers, weights and state as the attention layer.
AsHalf == [cfg EXCEPT !.layer = "half"]

AsHalfParams ==
  HalfParams(<<tree_leaves(params[1])[1], tree_leaves(params[3])[1]>>,
             params[Len(params)])

AsHalfState == StateList(AsHalf, state[1])

\* The two layers agree on forward and, when reverse_and_grad has returned,
\* on its results, the parameter cotangents compared leaf by leaf.
LayersAgree ==
  LET hfwd == Serial_forward(AsHalf, inputs, AsHalfParams, AsHalfState, rng)
      hrag == HalfResidual_reverse_and_grad(AsHalf, fwd.out, ct, AsHalfParams,
                                            AsHalfState, rng)
  IN  /\ fwd.out = hfwd.out
      /\ rag.status = "ok" =>
           /\ hrag.status = "ok"
           /\ rag.out = hrag.out
           /\ rag.x_ct = hrag.x_ct
           /\ <<tree_leaves(rag.params_ct[1])[1],
                tree_leaves(rag.params_ct[3])[1]>>
                = tree_leaves(hrag.params_ct[1])

PostIsLinear == cfg.post \in {"linear", "dropout"}

DrawsOnRng == cfg.post = "dropout" \/ cfg.attn = "lsh"

C9_HalfForwardAddsResidual ==
  (IsHalf /\ fwd.status = "ok") =>
    /\ Len(fwd.out) = 2
    /\ fwd.out[2] = inputs[2]
    /\ fwd.out[1] = inputs[1] + HalfResidualAt(inputs[2])

\* A forward pass whose residual is not zero and differs from the residual
\* of the first stream.
C9_Witness ==
  /\ IsHalf
  /\ fwd.status = "ok"
  /\ inputs[1] # inputs[2]
  /\ HalfResidualAt(inputs[2]) # 0
  /\ HalfResidualAt(inputs[1]) # HalfResidualAt(inputs[2])
  /\ fwd.out = <<inputs[1] + HalfResidualAt(inputs[2]), inputs[2]>>

\* The sublayers whose parameter structure reverse_and_grad takes as empty:
\* the final add, and the attention wrapper of the attention variant.
Parameterless == IF IsHalf THEN {Len(params)} ELSE {2, Len(params)}

\* C10: reverse_and_grad returns one parameter cotangent per sublayer, in
\* sublayer order (2 for ReversibleHalfResidual, 4 for the attention
\* variant); the entries of the parameterless sublayers are their parameter
\* structures themselves; and the call fails with an assertion error
\* whenever one of those structures holds a leaf.
C10_ParamsCotangentShape ==
  (rag.status # "none") =>
    IF \E i \in Parameterless : tree_leaves(params[i]) # <<>>
      THEN rag.status = "AssertionError"
      ELSE /\ rag.status = "ok"
           /\ Len(rag.params_ct) = (IF IsHalf THEN 2 ELSE 4)
           /\ Len(rag.params_ct) = Len(sublayers(cfg.layer))
           /\ \A i \in 1..Len(rag.params_ct) :
                rag.params_ct[i].shape = params[i].shape
           /\ \A i \in Parameterless : rag.params_ct[i] = params[i]

\* The attention variant returned four entries, the second and fourth being
\* the empty structures it was given.
C10_Witness ==
  /\ IsAttention
  /\ rag.status = "ok"
  /\ Len(rag.params_ct) = 4
  /\ rag.params_ct[2] = EmptyTriple
  /\ rag.params_ct[4] = EmptyPair
  /\ tree_leaves(rag.params_ct[1]) # <<>>

(***************************************************************************)
(* The linearity obligation of post_attention.                             *)
(***************************************************************************)
\* The exact derivative of z = post_attention(attention(pre_attention(x)))
\* at x, applied to the cotangent c, with the sub-seeds of the forward pass.
AttentionResidualVjpAt(x, c) ==
  LET rngs == pop_rng_and_split(rng, 4)
      w1 == tree_leaves(params[1])[1]
      w2 == tree_leaves(params[3])[1]
      r1 == InnerSeed(rngs[1])
      r2 == pop_rng_and_split(rngs[2], 3)[1]
      r3 == pop_rng_and_split(rngs[3], 3)[1]
      qkv == PreAttention(x, w1, state[1], r1)
      o == Attention(cfg.attn, qkv, r2)
      o_ct == PostAttention_vjp_x(cfg.post, o, w2, r3, c)
      fb == Attention_forward_and_backward(cfg.attn, qkv, o_ct, r2)
  IN  PreAttention_vjp(x, w1, state[1], r1, fb.qkv_ct).x_ct

\* The gradient of the layer's forward function (x1, x2) -> (x1 + z, x2)
\* for the output cotangent ct.
TrueInputCotangent ==
  <<ct[1], ct[2] + AttentionResidualVjpAt(inputs[2], ct[1])>>

\* The output of self.pre_attention that reverse_and_grad starts from.
PreAttentionStack ==
  pre_attention(cfg, fwd.out, params[1], state[1], split_rngs(rng, 4)[1])

\* The cotangent reverse_and_grad hands to the attention when post_attention
\* is differentiated at the inputs d.
PostCotangentAt(d) ==
  post_attention_vjp_x(cfg, d, params[3], state[3], split_rngs(rng, 4)[3],
                       residual_ct(ct))

\* The input cotangent that results when post_attention is differentiated
\* at the inputs d.
InputCotangentAt(d) ==
  pre_attention_vjp(cfg, fwd.out, params[1], state[1], split_rngs(rng, 4)[1],
    ApplyAttentionWrapper_forward_and_backward(
      cfg, PreAttentionStack, PostCotangentAt(d), split_rngs(rng, 4)[2]).ct).x_ct

\* Inputs post_attention could be differentiated at.
SubstituteStacks == {<<o, fwd.out[1], fwd.out[2]>> : o \in 0..(MaxVal + 2)}

\* C11: reverse_and_grad of the attention layer makes no linearity check:
\* whether it returns depends on the parameterless structures only, and the
\* input cotangent it returns is the one obtained by differentiating
\* post_attention at the last three entries of pre_attention's output.  For
\* a linear post_attention that cotangent is the same at every substitute
\* and equals the true gradient.
C11_NoLinearityCheck ==
  (IsAttention /\ rag.status # "none") =>
    /\ rag.status = "ok" <=>
         \A i \in Parameterless : tree_leaves(params[i]) = <<>>
    /\ rag.status = "ok" =>
         /\ rag.x_ct = InputCotangentAt(SubSeq(PreAttentionStack, 3, 5))
         /\ PostIsLinear =>
              /\ \A d \in SubstituteStacks :
                   PostCotangentAt(d) = PostCotangentAt(dummy_inputs(PreAttentionStack))
              /\ rag.x_ct = TrueInputCotangent

\* A non-linear post_attention: reverse_and_grad returned without an error,
\* and its input cotangent is not the true gradient.
C11_Witness ==
  /\ IsAttention
  /\ cfg.post = "nonlinear"
  /\ rag.status = "ok"
  /\ rag.out = inputs
  /\ rag.x_ct # TrueInputCotangent

(***************************************************************************)
(* Construction.                                                           *)
(***************************************************************************)
\* C12: constructing ReversibleAttentionHalfResidual, or ApplyAttentionWrapper
\* on its own, with an attention that does not expose forward_and_backward
\* ends in an AssertionError, and then no forward, reverse or
\* reverse_and_grad call is ever made on the layer.
C12_ConstructionAsserts ==
  /\ (wrapper # "none" /\ ~has_fb) => wrapper = "AssertionError"
  /\ (IsAttention /\ built # "none" /\ ~has_fb) =>
       /\ built = "AssertionError"
       /\ fwd = NoResult
       /\ rev = NoResult
       /\ rag = NoResult

\* Both constructors were tried with such an attention, and both raised.
C12_Witness ==
  /\ IsAttention
  /\ ~has_fb
  /\ built = "AssertionError"
  /\ wrapper = "AssertionError"

(***************************************************************************)
(* Properties of Map.                                                      *)
(***************************************************************************)
MapInitialized == map_call.op = "new_params_and_state"

MapForwarded == map_call.op = "forward"

\* C13: for a Map with n_sections >= 2, new_params_and_state with
\* check_shapes = True raises ValueError exactly when two of the input
\* shapes differ; with check_shapes = False it never raises; and whenever it
\* does not raise, the wrapped layer is initialised exactly once, from the
\* first shape, the first dtype and the rng.
C13_MapShapeCheck ==
  (MapInitialized /\ map_layer.n_sections >= 2) =>
    LET shapes == map_call.input_shape
        differ == \E i, j \in 1..Len(shapes) : shapes[i] # shapes[j]
    IN  /\ map_layer.check_shapes => (map_ret.status = "ValueError" <=> differ)
        /\ ~map_layer.check_shapes => map_ret.status = "ok"
        /\ map_ret.status \in {"ok", "ValueError"}
        /\ map_ret.status = "ok" =>
             map_ret.inits = <<initialize_once(shapes[1],
                                               map_call.input_dtype[1],
                                               map_call.rng)>>

\* Shapes that differ (the second from the third only) went unchecked, and
\* the layer was initialised from the first, whose dtype differs too.
C13_Witness ==
  /\ MapInitialized
  /\ map_layer.n_sections = 3
  /\ ~map_layer.check_shapes
  /\ map_call.input_shape[1] = map_call.input_shape[2]
  /\ map_call.input_shape[2] # map_call.input_shape[3]
  /\ map_call.input_dtype[1] # map_call.input_dtype[2]
  /\ map_ret.status = "ok"
  /\ Len(map_ret.inits) = 1

\* C14: Map.forward with n_sections > 1 returns a tuple as long as the
\* inputs whose i-th element is the wrapped layer applied to the i-th input
\* with the given params and state and the i-th of len(inputs) sub-seeds
\* split from the rng (None when the rng is None); with n_sections = 1 it
\* is the layer applied once to the whole input with the rng unsplit.
C14_MapForward ==
  MapForwarded =>
    LET xs == map_call.inputs
        p == map_call.params
        st == map_call.state
        r == map_call.rng
    IN  /\ map_ret.status = "ok"
        /\ IF map_layer.n_sections = 1
             THEN map_ret.out = apply_layer(xs, p, st, r)
             ELSE /\ Len(map_ret.out) = Len(xs)
                  /\ \A i \in 1..Len(xs) :
                       map_ret.out[i] =
                         apply_layer(xs[i], p, st,
                                     IF r = NoneRng THEN NoneRng
                                     ELSE random_split(r, Len(xs))[i])

\* Three different inputs were mapped with a seed, each with its own
\* sub-seed.
C14_Witness ==
  /\ MapForwarded
  /\ map_layer.n_sections = 3
  /\ map_call.rng # NoneRng
  /\ map_call.inputs[1] # map_call.inputs[2]
  /\ map_call.inputs[2] # map_call.inputs[3]
  /\ Len(map_ret.out) = 3
  /\ map_ret.out[1].rng # map_ret.out[2].rng
  /\ map_ret.out[2].rng # map_ret.out[3].rng
  /\ map_ret.out[3].x = map_call.inputs[3]

(***************************************************************************)
(* Properties of Chunk and Unchunk.                                        *)
(***************************************************************************)
LastLayer == chunk_hist[Len(chunk_hist)]

\* The 0-based indices into the dimensions after the first two.
RestIndices(shape) ==
  IF Len(shape) = 2 THEN {<<>>} ELSE {<<d>> : d \in 0..(shape[3] - 1)}

\* C15: Chunk maps shape (B, L, ...) to (B*n, L/n, ...), the j-th time
\* section of example b becoming row b*n + j; Unchunk maps (B', L', ...) to
\* (B'/n, L'*n, ...); and Unchunk(Chunk(x, n), n) is x, for every x of rank
\* at least 2 whose dimension 1 is divisible by n.
C15_ChunkUnchunkRoundTrip ==
  LET n == chunk_n
  IN  /\ (chunk_hist # <<>> /\ LastLayer = "Chunk"
            /\ chunk_cur.arg.shape[2] % n = 0) =>
           LET x == chunk_cur.arg
               y == chunk_cur.out
               B == x.shape[1]
               L == x.shape[2]
           IN  /\ chunk_cur.status = "ok"
               /\ y.shape = <<B * n, L \div n>> \o SubSeq(x.shape, 3, Len(x.shape))
               /\ \A b \in 0..(B - 1), j \in 0..(n - 1), t \in 0..((L \div n) - 1),
                     rest \in RestIndices(x.shape) :
                    At(y, <<b * n + j, t>> \o rest)
                      = At(x, <<b, j * (L \div n) + t>> \o rest)
      /\ (chunk_hist # <<>> /\ LastLayer = "Unchunk"
            /\ chunk_cur.arg.shape[1] % n = 0) =>
           LET x == chunk_cur.arg
           IN  /\ chunk_cur.status = "ok"
               /\ chunk_cur.out.shape =
                    <<x.shape[1] \div n, x.shape[2] * n>>
                      \o SubSeq(x.shape, 3, Len(x.shape))
      /\ (chunk_hist = <<"Chunk">> /\ chunk_x0.shape[2] % n = 0) =>
           Unchunk(chunk_cur.out, n).status = "ok"
      /\ (chunk_hist = <<"Chunk", "Unchunk">>) =>
           /\ chunk_cur.status = "ok"
           /\ chunk_cur.out = chunk_x0

\* An array of rank 3 with several examples was cut into several sections
\* of more than one step each, and put together again.
C15_Witness ==
  /\ chunk_hist = <<"Chunk", "Unchunk">>
  /\ chunk_n = 2
  /\ chunk_x0.shape = <<2, 4, 2>>
  /\ chunk_cur.arg.shape = <<4, 2, 2>>
  /\ chunk_cur.status = "ok"
  /\ chunk_cur.out = chunk_x0

\* C16: Chunk raises an AssertionError and returns no array whenever
\* x.shape[1] is not divisible by n_sections, and so does Unchunk whenever
\* x.shape[0] is not; neither truncates or pads: an array that is returned
\* holds exactly the elements of the input, in order.
C16_ChunkAssertsDivisibility ==
  chunk_hist # <<>> =>
    LET x == chunk_cur.arg
        dim == IF LastLayer = "Chunk" THEN 2 ELSE 1
    IN  IF x.shape[dim] % chunk_n # 0
          THEN /\ chunk_cur.status = "AssertionError"
               /\ chunk_cur.out = NoArray
          ELSE /\ chunk_cur.status = "ok"
               /\ chunk_cur.out.data = x.data
               /\ Product(chunk_cur.out.shape) = Len(x.data)

\* Unchunk with 2 sections was applied to an array of 3 rows; a truncation
\* would have returned one row.
C16_Witness ==
  /\ chunk_hist = <<"Unchunk">>
  /\ chunk_n = 2
  /\ chunk_x0.shape[1] = 3
  /\ chunk_cur.status = "AssertionError"
  /\ chunk_cur.out = NoArray

(***************************************************************************)
(* Properties of BroadcastedDropout.                                       *)
(***************************************************************************)
DropoutCalled == drop_call.op = "BroadcastedDropout"

DropoutIsIdentity ==
  /\ drop_ret.status = "ok"
  /\ drop_ret.out = drop_call.x

\* C17 (as stated): BroadcastedDropout at rate 0 is the identity in any
\* mode, and in a mode other than 'train' it is the identity at any rate.
C17_DropoutIdentity ==
  (DropoutCalled /\ (drop_call.rate2 = 0 \/ drop_call.mode # "train")) =>
    DropoutIsIdentity

\* C17 (amended): given an rng and a rate below 1, BroadcastedDropout at
\* rate 0 is the identity in any mode, and in a mode other than 'train' it
\* is the identity at any such rate.
C17_DropoutIdentityWhenValid ==
  (DropoutCalled /\ drop_call.rng # NoneRng /\ drop_call.rate2 < 2
     /\ (drop_call.rate2 = 0 \/ drop_call.mode # "train")) =>
    DropoutIsIdentity

\* A dropout of rate 1/2 left its input alone in eval mode, where the seed
\* given would have dropped a column in train mode.
C17_Witness ==
  /\ DropoutCalled
  /\ drop_call.mode = "eval"
  /\ drop_call.rate2 = 1
  /\ drop_call.rng # NoneRng
  /\ drop_ret.status = "ok"
  /\ drop_ret.out = drop_call.x
  /\ dropout_train(drop_call.x, 1, drop_call.rng) # drop_call.x

\* C18: BroadcastedDropout raises ValueError when rng is None and when
\* rate >= 1.0, in every mode and at every rate, returning nothing; when
\* both hold the error is the one about the missing rng; otherwise it
\* returns an array.
C18_DropoutChecks ==
  DropoutCalled =>
    /\ drop_call.rng = NoneRng =>
         drop_ret = DropoutRaised("BroadcastedDropout requires rng kwarg.")
    /\ (drop_call.rng # NoneRng /\ drop_call.rate2 >= 2) =>
         drop_ret = DropoutRaised("Dropout rate must be lower than 1.")
    /\ (drop_call.rng # NoneRng /\ drop_call.rate2 < 2) =>
         /\ drop_ret.status = "ok"
         /\ drop_ret.out.shape = drop_call.x.shape

\* In eval mode, with no rng and a rate of 1: the error names the rng.
C18_Witness ==
  /\ DropoutCalled
  /\ drop_call.mode = "eval"
  /\ drop_call.rng = NoneRng
  /\ drop_call.rate2 = 2
  /\ drop_ret.status = "ValueError"
  /\ drop_ret.message = "BroadcastedDropout requires rng kwarg."

(***************************************************************************)
(* Properties of reshape_by_device.                                        *)
(***************************************************************************)
DevicesCalled == dev_call.op = "reshape_by_device"

\* y has the nesting of x, and each leaf of y is the leaf of x at the same
\* place with its batch dimension split into [n, batch / n].
RECURSIVE SplitByDevice(_, _, _)
SplitByDevice(x, y, n) ==
  /\ y.kind = x.kind
  /\ IF x.kind = "leaf"
       THEN /\ y.x.shape = <<n, x.x.shape[1] \div n>> \o Tail(x.x.shape)
            /\ y.x.data = x.x.data
            /\ Product(y.x.shape) = Len(x.x.data)
       ELSE /\ DOMAIN y.items = DOMAIN x.items
            /\ \A k \in DOMAIN x.items : SplitByDevice(x.items[k], y.items[k], n)

\* C19: reshape_by_device(x, n_devices) raises ValueError and returns
\* nothing when n_devices does not evenly divide the batch dimension of some
\* leaf of x; otherwise every leaf is reshaped to [n_devices, batch /
\* n_devices] followed by its remaining dimensions, in the nesting of x.
C19_ReshapeByDevice ==
  DevicesCalled =>
    LET n == dev_call.n_devices
    IN  IF \E a \in LeavesOf(dev_call.x) : a.x.shape[1] % n # 0
          THEN /\ dev_ret.status = "ValueError"
               /\ dev_ret.out = Leaf(NoArray)
          ELSE /\ dev_ret.status = "ok"
               /\ SplitByDevice(dev_call.x, dev_ret.out, n)

\* A tuple holding a list: the second leaf cannot be split over 2 devices
\* though the first can.
C19_Witness ==
  /\ DevicesCalled
  /\ dev_call.n_devices = 2
  /\ dev_call.x.kind = "tuple"
  /\ dev_call.x.items[1].kind = "list"
  /\ dev_call.x.items[1].items[1].x.shape = <<2, 2>>
  /\ dev_call.x.items[2].x.shape = <<3>>
  /\ dev_ret.status = "ValueError"

(***************************************************************************)
(* The operations of the backend shim under each provider.                 *)
(***************************************************************************)
\* C20: under the jax and under the numpy provider alike, every
\* module-level wrapper, every RandomBackend method and the numpy forwarder
\* finds its entry in the active provider's table: no wrapper call ends in
\* a missing-entry error.
C20_EveryWrapperResolves ==
  last_wrapper.made => last_wrapper.outcome = "ok"

SdConstructed == sd_made # NoOpCall

SdDtypeAtConstruction ==
  IF sd_made.given THEN sd_made.dtype ELSE "float32"

\* C22: a ShapeDtype is an immutable pair: whatever is done to the instance
\* after its construction (directly, or through shape_dtype_for from an
\* object's shape and dtype), its shape and dtype are those it was
\* constructed with, the dtype being float32 when none was given.
C22_ShapeDtypeImmutable ==
  SdConstructed =>
    /\ sd_obj.shape = sd_made.shape
    /\ sd_obj.dtype = SdDtypeAtConstruction

(***************************************************************************)
(* Array creation keeps or replaces the backing tensor.                    *)
(***************************************************************************)
ArrSatisfied ==
  /\ arr_call.dtype \in {"<None>", arr_call.x.dtype}
  /\ arr_call.ndmin <= arr_call.x.rank

\* C23: array(x, copy=False), x an ndarray or its backing tensor, is backed
\* by the very tensor of x when x already has the requested dtype and at
\* least ndmin axes, and by another tensor when ndmin exceeds the rank of x
\* or another dtype is requested; asarray and asanyarray return the ndarray
\* they are given when no dtype is requested and another instance when a
\* dtype other than the ndarray's is requested.
C23_ArrayKeepsBackingTensor ==
  /\ (arr_call.op = "array" /\ ~arr_call.copy) =>
       /\ ArrSatisfied => arr_ret.data = arr_call.x.data
       /\ ~ArrSatisfied => arr_ret.data # arr_call.x.data
  /\ (arr_call.op \in {"asarray", "asanyarray"}
        /\ arr_call.x.kind = "ndarray") =>
       /\ arr_call.dtype = "<None>" => arr_ret.ndarray = arr_call.x.ndarray
       /\ arr_call.dtype \notin {"<None>", arr_call.x.dtype} =>
            arr_ret.ndarray # arr_call.x.ndarray

\* array(zeros_list.data, copy=False, dtype=float) of the test: the dtype
\* is requested and already satisfied, and the backing tensor is kept.
C23_Witness ==
  /\ arr_call.op = "array"
  /\ ~arr_call.copy
  /\ arr_call.x.kind = "tensor"
  /\ arr_call.dtype = arr_call.x.dtype
  /\ arr_call.ndmin = 1
  /\ arr_call.x.rank = 1
  /\ arr_ret.data = SourceId

(***************************************************************************)
(* The decoder block.                                                      *)
(***************************************************************************)
BlockSeeds == pop_rng_and_split(blk_call.rng, 4)

\* Attn(x): post_attention(attention(pre_attention(x))) with the weights,
\* state and sub-seeds of the block's first layer.
BlockAttn(x) ==
  LET rngs == pop_rng_and_split(BlockSeeds[1], 4)
      qkv == PreAttention(x, blk_call.w_att[1], blk_call.st,
                          InnerSeed(rngs[1]))
      o == Attention(blk_call.att.attn, qkv, pop_rng_and_split(rngs[2], 3)[1])
  IN  PostAttention(blk_call.att.post, o, blk_call.w_att[2],
                    pop_rng_and_split(rngs[3], 3)[1])

\* FF(x): the feed-forward residual with the weights, state and sub-seed of
\* the block's third layer.
BlockFF(x) ==
  Residual(blk_call.ff, x, blk_call.w_ff, blk_call.st,
           InnerSeed(pop_rng_and_split(BlockSeeds[3], 2)[1]))

BlockReversed == blk_rev # NoOpResult

\* C24: a decoder block maps (x1, x2) to (y1, y2) with y1 = x1 + Attn(x2)
\* and y2 = x2 + FF(y1), the streams leaving in the order they entered, and
\* undoing it (x2 = y2 - FF(y1), then x1 = y1 - Attn(x2)) gives back
\* exactly (x1, x2).
C24_DecoderBlockInverts ==
  /\ blk_fwd # NoOpResult =>
       /\ blk_fwd.status = "ok"
       /\ blk_fwd.out = <<blk_call.x[1] + BlockAttn(blk_call.x[2]),
                          blk_call.x[2]
                            + BlockFF(blk_call.x[1] + BlockAttn(blk_call.x[2]))>>
  /\ BlockReversed =>
       /\ blk_rev.status = "ok"
       /\ blk_rev.out = blk_call.x

\* The forward half of the claim alone, which the block does satisfy.
C24_DecoderBlockForward ==
  blk_fwd # NoOpResult =>
    /\ blk_fwd.status = "ok"
    /\ blk_fwd.out = <<blk_call.x[1] + BlockAttn(blk_call.x[2]),
                       blk_call.x[2]
                         + BlockFF(blk_call.x[1] + BlockAttn(blk_call.x[2]))>>

\* reverse_and_grad, which does not go through the attention layer's
\* reverse, does give the inputs back.
C24_ReverseAndGradInverts ==
  (BlockReversed /\ blk_rev.status = "ok") => blk_rev.out = blk_call.x

(***************************************************************************)
(* SplitForOutput.                                                         *)
(***************************************************************************)
SplitX1 == split_call.inputs[1]

SplitX2 == split_call.inputs[2]

SplitAxis == AxisOf(SplitX1, split_call.layer.axis)

SplitDivisible == SplitX1.shape[SplitAxis] % split_call.layer.n_sections = 0

\* The length of one section along the split axis.
SectionLen == SplitX1.shape[SplitAxis] \div split_call.layer.n_sections

\* Element (r, c) of the i-th section of x, read directly from x.
SectionElem(x, i, r, c) ==
  IF SplitAxis = 1 THEN Elem(x, (i - 1) * SectionLen + r, c)
                   ELSE Elem(x, r, (i - 1) * SectionLen + c)

SectionRows == IF SplitAxis = 1 THEN SectionLen ELSE SplitX1.shape[1]

SectionCols == IF SplitAxis = 2 THEN SectionLen ELSE SplitX1.shape[2]

\* C25: for x1 and x2 of one shape whose length along the axis is divisible
\* by n_sections, SplitForOutput.forward returns exactly n_sections arrays,
\* the i-th being the i-th section of x1 followed along the last axis by the
\* i-th section of x2, and reverse applied to them returns exactly (x1, x2).
C25_SplitForOutputRoundTrip ==
  (split_call # NoOpCall /\ SplitDivisible) =>
    /\ split_fwd.status = "ok"
    /\ Len(split_fwd.out) = split_call.layer.n_sections
    /\ \A i \in 1..split_call.layer.n_sections :
         /\ split_fwd.out[i].shape = <<SectionRows, 2 * SectionCols>>
         /\ \A r \in 1..SectionRows, c \in 1..SectionCols :
              /\ Elem(split_fwd.out[i], r, c) = SectionElem(SplitX1, i, r, c)
              /\ Elem(split_fwd.out[i], r, SectionCols + c)
                   = SectionElem(SplitX2, i, r, c)
    /\ split_rev # NoOpResult =>
         /\ split_rev.status = "ok"
         /\ split_rev.out = split_call.inputs

\* Three sections of several rows and columns each were split off and put
\* back.
C25_Witness ==
  /\ split_call # NoOpCall
  /\ split_call.layer.n_sections = 3
  /\ split_call.layer.axis = -2
  /\ SplitX1.shape = <<3, 2>>
  /\ split_rev # NoOpResult
  /\ split_rev.out = split_call.inputs
  /\ split_fwd.out[2].data = <<3, 4, 103, 104>>

\* The position of every input element in the outputs (the elements are all
\* different): output i, offset k.
PlaceOf(v) ==
  CHOOSE p \in {<<i, k>> : i \in 1..Len(split_fwd.out), k \in 1..(2 * MaxBatch * MaxLen)} :
    /\ p[2] \in DOMAIN split_fwd.out[p[1]].data
    /\ split_fwd.out[p[1]].data[p[2]] = v

\* The vector-Jacobian product of forward, a rearrangement: the cotangent
\* of an input element is the cotangent of the output element it became.
SplitVjp(x) ==
  [x EXCEPT !.data = [k \in DOMAIN x.data |->
     CotangentOf(split_fwd.out)[PlaceOf(x.data[k])[1]].data[PlaceOf(x.data[k])[2]]]]

\* C26: SplitForOutput.reverse_and_grad(output, ct) returns
\* (reverse(output), (reverse(ct), ())): the input cotangent is the output
\* cotangent rearranged as reverse rearranges the output, which is the
\* vector-Jacobian product of forward, and the parameter cotangent is the
\* empty structure.
C26_SplitReverseAndGrad ==
  split_rag # NoOpResult =>
    /\ split_rag.status = "ok"
    /\ split_rag.out = SplitForOutput_reverse(split_call.layer, split_fwd.out).out
    /\ split_rag.out = split_call.inputs
    /\ split_rag.x_ct
         = SplitForOutput_reverse(split_call.layer,
                                  CotangentOf(split_fwd.out)).out
    /\ split_rag.x_ct = <<SplitVjp(SplitX1), SplitVjp(SplitX2)>>
    /\ split_rag.params_ct = EmptyParams

\* A cotangent that the rearrangement moves: with two sections of columns,
\* the cotangents of x1's elements come from both outputs.
C26_Witness ==
  /\ split_rag # NoOpResult
  /\ split_rag.status = "ok"
  /\ split_call.layer.n_sections = 2
  /\ split_call.layer.axis = -1
  /\ SplitX1.shape = <<2, 4>>
  /\ split_rag.x_ct[1].data = <<1001, 1002, 2001, 2002, 1005, 1006, 2005, 2006>>

(***************************************************************************)
(* The backward direction uses the seeds of the forward direction.         *)
(***************************************************************************)
\* The calls the backward method that has run made on the sublayers.
ReverseCallsMade ==
  IF IsHalf THEN HalfResidual_reverse_calls(cfg, rng)
  ELSE AttentionHalfResidual_reverse_calls(cfg, rng)

ReverseAndGradCallsMade ==
  IF IsHalf THEN HalfResidual_reverse_and_grad_calls(cfg, rng)
  ELSE AttentionHalfResidual_reverse_and_grad_calls(cfg, rng)

\* reverse_layers is the forward list with SubtractTop in place of Add.
ReverseLayersAligned ==
  /\ Len(reverse_layers(cfg.layer)) = Len(sublayers(cfg.layer))
  /\ \A i \in 1..(Len(sublayers(cfg.layer)) - 1) :
       reverse_layers(cfg.layer)[i] = sublayers(cfg.layer)[i]
  /\ sublayers(cfg.layer)[Len(sublayers(cfg.layer))] = "add_top"
  /\ reverse_layers(cfg.layer)[Len(sublayers(cfg.layer))] = "subtract_top"

\* Every call receives the entry of params and state (when it receives
\* one) and the sub-seed that forward gives to the layer at that position.
CallsAligned(calls) ==
  \A k \in 1..Len(calls) :
    \E i \in 1..n_layers(cfg.layer) :
      /\ reverse_layers(cfg.layer)[i] = calls[k].layer
      /\ calls[k].params \in {0, i}
      /\ calls[k].state \in {0, i}
      /\ calls[k].rng = Serial_forward_calls(cfg, rng)[i].rng

\* Every sublayer that forward runs before the Add is run again.
EverySublayerSeesItsSeed(calls) ==
  \A i \in 1..(n_layers(cfg.layer) - 1) :
    \E k \in 1..Len(calls) :
      /\ calls[k].layer = sublayers(cfg.layer)[i]
      /\ calls[k].rng = Serial_forward_calls(cfg, rng)[i].rng

WrapperSeedsAgree ==
  \A r \in {Serial_forward_calls(cfg, rng)[i].rng :
              i \in 1..n_layers(cfg.layer)} :
    ApplyAttentionWrapper_forward_and_backward_seed(r)
      = ApplyAttentionWrapper_forward_seed(r)

\* C27: in both half-residual layers reverse_layers has the length of the
\* forward sublayer list and differs from it only in the last entry
\* (SubtractTop for Add); reverse and reverse_and_grad split the rng into as
\* many sub-seeds as forward and give the i-th params, state and sub-seed to
\* the i-th layer, the attention wrapper taking the first split of its
\* sub-seed as the forward Parallel does; so every stochastic sublayer sees
\* in the backward direction the seed it saw in forward.
C27_BackwardSeesForwardSeeds ==
  /\ ReverseLayersAligned
  /\ WrapperSeedsAgree
  /\ rev.status # "none" =>
       /\ CallsAligned(ReverseCallsMade)
       /\ EverySublayerSeesItsSeed(ReverseCallsMade)
  /\ rag.status = "ok" =>
       /\ CallsAligned(ReverseAndGradCallsMade)
       /\ EverySublayerSeesItsSeed(ReverseAndGradCallsMade)

\* What holds of the code as it is: the lists are aligned, the calls that
\* are made are given the forward seeds, and every method but
\* ReversibleAttentionHalfResidual.reverse runs every sublayer.
C27_SeedsAlignedWhereRun ==
  /\ ReverseLayersAligned
  /\ WrapperSeedsAgree
  /\ rev.status # "none" =>
       /\ CallsAligned(ReverseCallsMade)
       /\ IsHalf => EverySublayerSeesItsSeed(ReverseCallsMade)
  /\ rag.status = "ok" =>
       /\ CallsAligned(ReverseAndGradCallsMade)
       /\ EverySublayerSeesItsSeed(ReverseAndGradCallsMade)

(***************************************************************************)
(* BroadcastedDropout in train mode.                                       *)
(***************************************************************************)
\* The broadcast_dims of the call, (-2,) when none was given.
DropoutDims ==
  IF "broadcast_dims" \in DOMAIN drop_call THEN drop_call.broadcast_dims
  ELSE <<-2>>

\* The axes, from 1, that are broadcast.
DropoutBroadcastAxes ==
  {Len(drop_call.x.shape) + DropoutDims[j] + 1 : j \in 1..Len(DropoutDims)}

DropoutTrains ==
  /\ DropoutCalled
  /\ drop_call.mode = "train"
  /\ drop_call.rng # NoneRng
  /\ drop_call.rate2 > 0
  /\ drop_call.rate2 < 2

DropoutPositions ==
  (1..drop_call.x.shape[1]) \X (1..drop_call.x.shape[2])

DropoutKept(p) == Elem(drop_ret.out, p[1], p[2]) # 0

\* C28: in mode 'train' with 0 < rate < 1, BroadcastedDropout returns at
\* every position either 0 or x / (1 - rate), and two positions that differ
\* only in their index along a broadcast dimension (by default axis -2) are
\* kept or dropped together.
C28_DropoutBroadcasts ==
  DropoutTrains =>
    /\ drop_ret.status = "ok"
    /\ drop_ret.out.shape = drop_call.x.shape
    /\ \A p \in DropoutPositions :
         \/ Elem(drop_ret.out, p[1], p[2]) = 0
         \/ Elem(drop_ret.out, p[1], p[2]) * (2 - drop_call.rate2)
              = 2 * Elem(drop_call.x, p[1], p[2])
    /\ \A p, q \in DropoutPositions :
         (\A d \in {1, 2} \ DropoutBroadcastAxes : p[d] = q[d]) =>
           DropoutKept(p) = DropoutKept(q)

\* A call with the default broadcast_dims on several rows and columns that
\* dropped some columns whole and kept the others whole.
C28_Witness ==
  /\ DropoutTrains
  /\ "broadcast_dims" \notin DOMAIN drop_call
  /\ drop_call.x.shape = <<2, 3>>
  /\ \E c1, c2 \in 1..3 :
       /\ \A r \in 1..2 : ~DropoutKept(<<r, c1>>)
       /\ \A r \in 1..2 :
            Elem(drop_ret.out, r, c2) = 2 * Elem(drop_call.x, r, c2)

(***************************************************************************)
(* The chunk arities of ReformerLM.                                        *)
(***************************************************************************)
ReformerBuilt == lm_call # NoOpCall /\ lm_ret.status = "ok"

EffectiveChunks == IF lm_call.n_chunks = 0 THEN 1 ELSE lm_call.n_chunks

\* C29: for every n_chunks >= 0 the model ReformerLM returns has consistent
\* chunk arities: n_chunks = 0 is one chunk with no concatenation of the
\* inputs, otherwise n_chunks inputs are concatenated; SplitForOutput
\* produces as many sections as the final Map has n_sections, both being
\* the effective chunk count; and the reversible stack is exactly n_layers
\* decoder blocks followed by the one SplitForOutput.
C29_ChunkAritiesConsistent ==
  ReformerBuilt =>
    /\ lm_call.n_chunks = 0 => lm_ret.concatenate_input_chunks = <<>>
    /\ lm_call.n_chunks # 0 =>
         lm_ret.concatenate_input_chunks
           = <<[class |-> "Concatenate", n_items |-> lm_call.n_chunks]>>
    /\ Len(lm_ret.reversible) = lm_call.n_layers + 1
    /\ \A i \in 1..lm_call.n_layers :
         lm_ret.reversible[i].class = "DecoderBlock"
    /\ lm_ret.reversible[lm_call.n_layers + 1].class = "SplitForOutput"
    /\ lm_ret.reversible[lm_call.n_layers + 1].n_sections = EffectiveChunks
    /\ Len(lm_ret.output) = 1
    /\ lm_ret.output[1].class = "Map"
    /\ lm_ret.output[1].n_sections = EffectiveChunks

\* A model of several layers built with n_chunks = 0: one section, nothing
\* concatenated.
C29_Witness ==
  /\ ReformerBuilt
  /\ lm_call.n_chunks = 0
  /\ lm_call.n_layers = 2
  /\ lm_call.attention_type.is_list
  /\ lm_ret.concatenate_input_chunks = <<>>
  /\ lm_ret.reversible[3].n_sections = 1
  /\ lm_ret.output[1].n_sections = 1

(***************************************************************************)
(* combine_devices undoes reshape_by_device.                               *)
(***************************************************************************)
\* y has the nesting of x, every leaf of rank 2 or more with its first two
\* dimensions merged and every leaf of lower rank as it was.
RECURSIVE MergedByDevice(_, _)
MergedByDevice(x, y) ==
  /\ y.kind = x.kind
  /\ IF x.kind = "leaf"
       THEN IF Len(x.x.shape) < 2 THEN y = x
            ELSE /\ y.x.shape = <<x.x.shape[1] * x.x.shape[2]>>
                                  \o SubSeq(x.x.shape, 3, Len(x.x.shape))
                 /\ y.x.data = x.x.data
       ELSE /\ DOMAIN y.items = DOMAIN x.items
            /\ \A k \in DOMAIN x.items : MergedByDevice(x.items[k], y.items[k])

\* C30: combine_devices is the inverse of reshape_by_device: for a possibly
\* nested x whose leaves have rank 1 or more and a leading dimension that
\* n_devices divides, combine_devices(reshape_by_device(x, n_devices)) has
\* the structure, shapes and elements of x; combine_devices merges the
\* first two dimensions of every leaf of rank 2 or more and returns the
\* leaves of lower rank unchanged.
C30_CombineInvertsReshape ==
  /\ (dev_call # NoOpCall /\ dev_call.op = "reshape_by_device"
        /\ \A a \in LeavesOf(dev_call.x) :
             a.x.shape[1] % dev_call.n_devices = 0) =>
       /\ dev_ret.status = "ok"
       /\ dev_back # NoOpResult =>
            /\ dev_back.status = "ok"
            /\ dev_back.out = dev_call.x
            /\ MergedByDevice(dev_ret.out, dev_back.out)
  /\ (dev_call # NoOpCall /\ dev_call.op = "combine_devices") =>
       /\ dev_back.status = "ok"
       /\ MergedByDevice(dev_call.x, dev_back.out)

\* A dict of a vector and a matrix was split over 2 devices and put back.
C30_Witness ==
  /\ dev_call # NoOpCall
  /\ dev_call.op = "reshape_by_device"
  /\ dev_call.n_devices = 2
  /\ dev_call.x.kind = "dict"
  /\ dev_call.x.items["inputs"].x.shape = <<2>>
  /\ dev_call.x.items["targets"].x.shape = <<2, 2>>
  /\ dev_ret.status = "ok"
  /\ dev_ret.out.items["inputs"].x.shape = <<2, 1>>
  /\ dev_back # NoOpResult
  /\ dev_back.out = dev_call.x

====
